---- MODULE Spec2Model ----
(***************************************************************************)
(* Unread tracking and log aggregation of the WhatsApp support server:     *)
(* append-only per-customer and per-day jsonl logs, the per-customer       *)
(* state file holding last_seen_incoming_at, summarizeCustomer, and the    *)
(* handlers POST /webhook, POST /send, GET /customers, GET /ui,            *)
(* GET /customers/:wa_id/messages and GET /ui/customer/:wa_id.             *)
(*                                                                         *)
(* Strings the code inspects character by character (customer ids, message *)
(* bodies, keywords) are sequences of one-character strings; a non-ASCII   *)
(* character is written as its code point, "U7269".  ISO timestamps made   *)
(* by new Date().toISOString() are the positive integers of the clock.     *)
(* JavaScript's null/undefined is NullTime where a timestamp is expected,   *)
(* NullStr where a string is expected, and the empty sequence where an      *)
(* object is expected (an object that is present is a one-element           *)
(* sequence).                                                               *)
(***************************************************************************)
EXTENDS Integers, Sequences, FiniteSets, TLC

NullTime == -1

NullStr == <<"null">>

None == <<>>

Some(x) == <<x>>

\* ------------------------------------------------------------------ bounds
\* Total number of records created by POST /webhook and POST /send.
MaxCalls == 3
\* Last tick of the clock.
MaxClock == 2
\* Clock ticks per calendar day.
DayLen == 1
\* Number of fs.appendFile calls in flight together.
MaxPending == 3

\* ------------------------------------------------------ program constants
\* Window sizes, scaled down keeping their order:
\* 300 (summary) = 300 (API default) < 800 (chat default) < 3000 < 5000.
SummaryWindow == 2
ApiDefaultLimit == 2
ChatDefaultLimit == 3
ApiMaxLimit == 4
ChatMaxLimit == 5
\* the 24 hours of the filter recent24, in ticks
RecentHours == 1

\* ------------------------------------------------------------ input sets
IdA == <<"a", "/">>
IdA2 == <<"a", "_">>
IdB == <<"b">>
IdC == <<"c">>
RawIds == {IdA, IdA2, IdB, IdC}

TxtTrack == <<"T", "r", "a", "c", "k", " ", "m", "y", " ", "o", "r", "d", "e", "r">>
TxtHi == <<"h", "i">>
TxtRefund == <<"r", "e", "f", "u", "n", "d", " ", "p", "r", "i", "c", "e">>

\* message texts a customer may type
TxtWhere ==
    <<"W", "h", "e", "r", "e", " ", "i", "s", " ", "m", "y", " ", "p", "a",
      "c", "k", "a", "g", "e", " ", "t", "r", "a", "c", "k", "i", "n", "g",
      " ", "n", "u", "m", "b", "e", "r", "?">>
TxtBroken ==
    <<"M", "y", " ", "i", "t", "e", "m", " ", "a", "r", "r", "i", "v", "e",
      "d", " ", "b", "r", "o", "k", "e", "n", ",", " ", "n", "e", "e", "d",
      " ", "a", " ", "r", "e", "f", "u", "n", "d">>
TxtPrice ==
    <<"W", "h", "a", "t", "'", "s", " ", "t", "h", "e", " ", "p", "r", "i",
      "c", "e", " ", "a", "n", "d", " ", "l", "e", "a", "d", " ", "t", "i",
      "m", "e", "?">>
TxtHello == <<"h", "e", "l", "l", "o">>

\* the texts getTags is applied to: the four above, an absent text, an
\* empty text, upper case, and the texts of the deliveries
TagTexts ==
    {TxtWhere, TxtBroken, TxtPrice, TxtHello, NullStr, <<>>,
     <<"R", "E", "F", "U", "N", "D">>, TxtTrack, TxtHi, TxtRefund}

\* raw values of the query parameter limit: absent, "abc", "-1", "0", "1",
\* "2", "9", "2x"
LimitInputs ==
    {NullStr, <<"a", "b", "c">>, <<"-", "1">>, <<"0">>, <<"1">>, <<"2">>,
     <<"9">>, <<"2", "x">>}

\* the limits the handlers are run with
HandlerLimits == {NullStr, <<"-", "1">>, <<"1">>}

\* ---------------------------------------------------------------- helpers
Min(a, b) == IF a <= b THEN a ELSE b

Max(a, b) == IF a >= b THEN a ELSE b

\* Array.prototype.slice(from) for 0 <= from
SliceFrom(s, from) == SubSeq(s, from + 1, Len(s))

IsPrefix(s, t) == Len(s) <= Len(t) /\ SubSeq(t, 1, Len(s)) = s

\* String.prototype.includes
Includes(text, kw) ==
    \E i \in 0..(Len(text) - Len(kw)) : SubSeq(text, i + 1, i + Len(kw)) = kw

UpperToLower ==
    [c \in {"A","B","C","D","E","F","G","H","I","J","K","L","M","N","O","P","Q","R","S","T","U","V","W","X","Y","Z"} |->
       CASE c = "A" -> "a" [] c = "B" -> "b" [] c = "C" -> "c" [] c = "D" -> "d"
         [] c = "E" -> "e" [] c = "F" -> "f" [] c = "G" -> "g" [] c = "H" -> "h"
         [] c = "I" -> "i" [] c = "J" -> "j" [] c = "K" -> "k" [] c = "L" -> "l"
         [] c = "M" -> "m" [] c = "N" -> "n" [] c = "O" -> "o" [] c = "P" -> "p"
         [] c = "Q" -> "q" [] c = "R" -> "r" [] c = "S" -> "s" [] c = "T" -> "t"
         [] c = "U" -> "u" [] c = "V" -> "v" [] c = "W" -> "w" [] c = "X" -> "x"
         [] c = "Y" -> "y" [] c = "Z" -> "z"]

\* String.prototype.toLowerCase
toLowerCase(s) ==
    [i \in 1..Len(s) |-> IF s[i] \in DOMAIN UpperToLower THEN UpperToLower[s[i]] ELSE s[i]]

\* ------------------------------------------------------------------- tags
LogisticsKeywords ==
    { <<"t", "r", "a", "c", "k">>,
      <<"t", "r", "a", "c", "k", "i", "n", "g">>,
      <<"d", "e", "l", "i", "v", "e", "r">>,
      <<"d", "e", "l", "i", "v", "e", "r", "y">>,
      <<"u", "p", "s">>,
      <<"f", "e", "d", "e", "x">>,
      <<"d", "h", "l">>,
      <<"u", "s", "p", "s">>,
      <<"s", "h", "i", "p", "m", "e", "n", "t">>,
      <<"U7269", "U6D41">>,
      <<"U6D3E", "U9001">>,
      <<"U7B7E", "U6536">>,
      <<"U8FD0", "U5355">>,
      <<"U5FEB", "U9012">> }
AfterSalesKeywords ==
    { <<"w", "a", "r", "r", "a", "n", "t", "y">>,
      <<"b", "r", "o", "k", "e", "n">>,
      <<"i", "s", "s", "u", "e">>,
      <<"p", "r", "o", "b", "l", "e", "m">>,
      <<"f", "a", "u", "l", "t">>,
      <<"d", "e", "f", "e", "c", "t">>,
      <<"r", "e", "t", "u", "r", "n">>,
      <<"r", "e", "p", "l", "a", "c", "e">>,
      <<"r", "e", "f", "u", "n", "d">>,
      <<"n", "o", "t", " ", "w", "o", "r", "k">>,
      <<"d", "o", "e", "s", "n", "'", "t", " ", "w", "o", "r", "k">>,
      <<"U574F">>,
      <<"U6545", "U969C">>,
      <<"U95EE", "U9898">>,
      <<"U9000", "U8D27">>,
      <<"U6362", "U8D27">>,
      <<"U9000", "U6B3E">> }
PreSalesKeywords ==
    { <<"p", "r", "i", "c", "e">>,
      <<"q", "u", "o", "t", "e">>,
      <<"q", "u", "o", "t", "a", "t", "i", "o", "n">>,
      <<"i", "n", "v", "o", "i", "c", "e">>,
      <<"p", "a", "y">>,
      <<"p", "a", "y", "m", "e", "n", "t">>,
      <<"d", "i", "s", "c", "o", "u", "n", "t">>,
      <<"a", "v", "a", "i", "l", "a", "b", "i", "l", "i", "t", "y">>,
      <<"l", "e", "a", "d", " ", "t", "i", "m", "e">>,
      <<"U62A5", "U4EF7">>,
      <<"U4EF7", "U683C">>,
      <<"U53D1", "U7968">>,
      <<"U4ED8", "U6B3E">>,
      <<"U6298", "U6263">>,
      <<"U6709", "U8D27">>,
      <<"U4EA4", "U671F">> }

\* the three tests chained with else: the first tag that matches only
getTags_FirstOnly(text) ==
    LET t == toLowerCase(IF text = NullStr THEN <<>> ELSE text)
        hit(kws) == \E kw \in kws : Includes(t, kw)
    IN  IF hit(LogisticsKeywords) THEN <<"logistics">>
        ELSE IF hit(AfterSalesKeywords) THEN <<"after_sales">>
        ELSE IF hit(PreSalesKeywords) THEN <<"pre_sales">>
        ELSE <<>>

\* getTags(text): (text || "").toLowerCase(), then one regex test per tag,
\* pushed in the fixed order logistics, after_sales, pre_sales.
getTags(text) ==
    LET t == toLowerCase(IF text = NullStr THEN <<>> ELSE text)
        hit(kws) == \E kw \in kws : Includes(t, kw)
    IN  (IF hit(LogisticsKeywords) THEN <<"logistics">> ELSE <<>>)
        \o (IF hit(AfterSalesKeywords) THEN <<"after_sales">> ELSE <<>>)
        \o (IF hit(PreSalesKeywords) THEN <<"pre_sales">> ELSE <<>>)

\* ---------------------------------------------------------------- files
BadFileChars == {"\\", "/", ":", "*", "?", "\"", "<", ">", "|"}

RECURSIVE trim(_)
\* String.prototype.trim
trim(s) ==
    IF s = <<>> THEN s
    ELSE IF Head(s) = " " THEN trim(Tail(s))
    ELSE IF s[Len(s)] = " " THEN trim(SubSeq(s, 1, Len(s) - 1))
    ELSE s

\* String(name || "").replace(/[\\\/:*?"<>|]/g, "_").trim()
safeFileName(name) ==
    LET str == IF name = NullStr THEN <<>> ELSE name
    IN  trim([i \in 1..Len(str) |-> IF str[i] \in BadFileChars THEN "_" ELSE str[i]])

\* names of the files logs/by-user/<key>.jsonl and logs/state/<key>.json
Keys == {safeFileName(w) : w \in RawIds}

\* todayFileName(): the calendar day of the clock at the time of the call
todayFileName(t) == (t - 1) \div DayLen

Days == 0..todayFileName(MaxClock)

\* mutant: one state file for all customers
statePath_Shared(waId) == safeFileName(IdB)

\* statePath(waId): the state file of a customer id
statePath(waId) == safeFileName(waId)

\* a line written by appendJsonl: JSON.stringify(obj) + "\n"
stringifyLine(obj) == <<"json", obj>>

\* a line cut short when the process stopped in the middle of a write (and
\* joined with the line appended after it): not valid JSON
tornLine(obj) == <<"torn", obj>>

\* JSON.parse of a line succeeds
parses(line) == line[1] = "json"

parseLine(line) == line[2]

\* mutant: the line is written in front of the file
appendLine_Prepend(content, line) == <<line>> \o content

\* mutant: fs.writeFile instead of fs.appendFile
appendLine_Overwrite(content, line) == <<line>>

\* the file after fs.appendFile has written the line
appendLine(content, line) == Append(content, line)

RECURSIVE parsedRows_StopAtBad(_)
\* mutant: the read gives up at the first line that does not parse
parsedRows_StopAtBad(tail) ==
    IF tail = <<>> \/ ~parses(Head(tail)) THEN <<>>
    ELSE <<parseLine(Head(tail))>> \o parsedRows_StopAtBad(Tail(tail))

RECURSIVE parsedRows(_)
\* for (const line of tail) try { out.push(JSON.parse(line)) } catch (_) {}
parsedRows(tail) ==
    IF tail = <<>> THEN <<>>
    ELSE (IF parses(Head(tail)) THEN <<parseLine(Head(tail))>> ELSE <<>>)
         \o parsedRows(Tail(tail))

\* the first n lines of the file instead of the last n
readJsonlLastN_FirstLines(content, n) ==
    IF content = <<>> THEN <<>>
    ELSE parsedRows(SubSeq(content, 1, Min(Max(n, 0), Len(content))))

\* every line parsed first, the last n records cut from the result
readJsonlLastN_ParseFirst(content, n) ==
    IF content = <<>> THEN <<>>
    ELSE SliceFrom(parsedRows(content), Max(0, Len(parsedRows(content)) - n))

\* mutant: the whole file is parsed, whatever n
readJsonlLastN_WholeFile(content, n) == parsedRows(content)

\* readJsonlLastN(filePath, n); a file that does not exist has no lines
readJsonlLastN(content, n) ==
    IF content = <<>> THEN <<>>
    ELSE parsedRows(SliceFrom(content, Max(0, Len(content) - n)))

\* ---------------------------------------------------------------- state
\* isoToMs(iso): Date.parse(iso || ""), 0 when that is not finite
isoToMs(iso) == IF iso = NullTime THEN 0 ELSE iso

\* a state file that fs.writeFileSync truncated and did not finish: its
\* content is not JSON
TornState == <<[torn |-> TRUE]>>

\* readState(waId) on the state file: None when it does not exist, else
\* Some(obj) with obj the parsed JSON object
readState(file) ==
    IF file = None \/ file = TornState THEN [last_seen_incoming_at |-> NullTime]
    ELSE LET obj == file[1]
         IN  [last_seen_incoming_at |->
                IF "last_seen_incoming_at" \in DOMAIN obj
                THEN obj.last_seen_incoming_at ELSE NullTime]

\* { ...cur, ...patch }
mergeObj(cur, patch) ==
    [f \in DOMAIN cur \cup DOMAIN patch |-> IF f \in DOMAIN patch THEN patch[f] ELSE cur[f]]

\* writeState(waId, patch): the new content of the state file
writeState(file, patch) == Some(mergeObj(readState(file), patch))

\* ------------------------------------------------------------- summarizer
EmptyObj == [x \in {} |-> 0]

RECURSIVE addTags_SetOne(_, _)
\* mutant: tagCounts[tag] = 1
addTags_SetOne(tagCounts, tags) ==
    IF tags = <<>> THEN tagCounts
    ELSE addTags_SetOne([t \in DOMAIN tagCounts \cup {Head(tags)} |->
                            IF t = Head(tags) THEN 1 ELSE tagCounts[t]], Tail(tags))

RECURSIVE addTags(_, _)
\* for (const tag of r.tags || []) tagCounts[tag] = (tagCounts[tag] || 0) + 1
addTags(tagCounts, tags) ==
    IF tags = <<>> THEN tagCounts
    ELSE LET tag == Head(tags)
             bumped == IF tag \in DOMAIN tagCounts
                       THEN [tagCounts EXCEPT ![tag] = @ + 1]
                       ELSE [t \in DOMAIN tagCounts \cup {tag} |->
                               IF t = tag THEN 1 ELSE tagCounts[t]]
         IN  addTags(bumped, Tail(tags))

RECURSIVE countTags(_, _)
\* the tag histogram of the rows
countTags(tagCounts, rows) ==
    IF rows = <<>> THEN tagCounts
    ELSE countTags(addTags(tagCounts, Head(rows).tags), Tail(rows))

\* mutant: ms >= lastSeenMs
isUnread_Geq(r, lastSeenMs) ==
    /\ r.direction = "incoming"
    /\ isoToMs(r.received_at) # 0
    /\ isoToMs(r.received_at) >= lastSeenMs

\* if (ms && ms > lastSeenMs) unreadCount++
isUnread(r, lastSeenMs) ==
    /\ r.direction = "incoming"
    /\ isoToMs(r.received_at) # 0
    /\ isoToMs(r.received_at) > lastSeenMs

RECURSIVE countUnread(_, _)
countUnread(rows, lastSeenMs) ==
    IF rows = <<>> THEN 0
    ELSE (IF isUnread(Head(rows), lastSeenMs) THEN 1 ELSE 0)
         + countUnread(Tail(rows), lastSeenMs)

\* mutant: the timestamp of the last row when that row is incoming
lastIncomingAt_OfLastRow(rows, acc) ==
    IF rows = <<>> THEN acc
    ELSE IF rows[Len(rows)].direction = "incoming" THEN rows[Len(rows)].received_at
    ELSE NullTime

RECURSIVE lastIncomingAt_First(_, _)
\* mutant: keeps the first incoming timestamp found
lastIncomingAt_First(rows, acc) ==
    IF rows = <<>> THEN acc
    ELSE lastIncomingAt_First(Tail(rows),
            IF Head(rows).direction = "incoming" /\ Head(rows).received_at # NullTime
               /\ acc = NullTime
            THEN Head(rows).received_at ELSE acc)

RECURSIVE lastIncomingAt(_, _)
\* if (r.direction === "incoming" && r.received_at) latest = r.received_at
lastIncomingAt(rows, acc) ==
    IF rows = <<>> THEN acc
    ELSE lastIncomingAt(Tail(rows),
            IF Head(rows).direction = "incoming" /\ Head(rows).received_at # NullTime
            THEN Head(rows).received_at ELSE acc)

\* a || b on timestamps
orElse(a, b) == IF a = NullTime THEN b ELSE a

RECURSIVE unreadRows(_, _)
unreadRows(rows, lastSeenMs) ==
    IF rows = <<>> THEN <<>>
    ELSE (IF isUnread(Head(rows), lastSeenMs) THEN <<Head(rows)>> ELSE <<>>)
         \o unreadRows(Tail(rows), lastSeenMs)

\* mutant: the tag histogram counts the unread rows only
summarizeCustomer_TagsOfUnread(content, file, waId) ==
    LET rows == readJsonlLastN(content, SummaryWindow)
        lst == rows[Len(rows)]
        lastSeenMs == isoToMs(readState(file).last_seen_incoming_at)
    IN  IF Len(rows) = 0 THEN None
        ELSE Some([wa_id |-> waId,
              profile_name |-> lst.profile_name,
              last_time |-> orElse(lst.received_at, lst.sent_at),
              last_text |-> lst.text,
              last_type |-> lst.type,
              last_direction |-> lst.direction,
              tags |-> countTags(EmptyObj, unreadRows(rows, lastSeenMs)),
              unread_count |-> countUnread(rows, lastSeenMs),
              last_incoming_at |-> lastIncomingAt(rows, NullTime)])

\* a TypeError thrown in a route handler, on its way to the handler's catch
Thrown == <<[error |-> "TypeError"]>>

\* mutant: without the test of rows.length, last.profile_name throws
summarizeCustomer_NoGuard(content, file, waId) ==
    LET rows == readJsonlLastN(content, SummaryWindow)
        lst == rows[Len(rows)]
        lastSeenMs == isoToMs(readState(file).last_seen_incoming_at)
    IN  IF Len(rows) = 0 THEN Thrown
        ELSE Some([wa_id |-> waId,
              profile_name |-> lst.profile_name,
              last_time |-> orElse(lst.received_at, lst.sent_at),
              last_text |-> lst.text,
              last_type |-> lst.type,
              last_direction |-> lst.direction,
              tags |-> countTags(EmptyObj, rows),
              unread_count |-> countUnread(rows, lastSeenMs),
              last_incoming_at |-> lastIncomingAt(rows, NullTime)])

\* summarizeCustomer(filePath, waId)
summarizeCustomer(content, file, waId) ==
    LET rows == readJsonlLastN(content, SummaryWindow)
        lst == rows[Len(rows)]
        st == readState(file)
        lastSeenMs == isoToMs(st.last_seen_incoming_at)
    IN  IF Len(rows) = 0 THEN None
        ELSE Some([wa_id |-> waId,
              profile_name |-> lst.profile_name,
              last_time |-> orElse(lst.received_at, lst.sent_at),
              last_text |-> lst.text,
              last_type |-> lst.type,
              last_direction |-> lst.direction,
              tags |-> countTags(EmptyObj, rows),
              unread_count |-> countUnread(rows, lastSeenMs),
              last_incoming_at |-> lastIncomingAt(rows, NullTime)])

Digits == {"0", "1", "2", "3", "4", "5", "6", "7", "8", "9"}

DigitVal(c) ==
    CASE c = "0" -> 0 [] c = "1" -> 1 [] c = "2" -> 2 [] c = "3" -> 3 [] c = "4" -> 4
      [] c = "5" -> 5 [] c = "6" -> 6 [] c = "7" -> 7 [] c = "8" -> 8 [] c = "9" -> 9

RECURSIVE leadingDigits(_, _)
\* value of the longest prefix of digits, continuing from acc
leadingDigits(s, acc) ==
    IF s = <<>> \/ Head(s) \notin Digits THEN acc
    ELSE leadingDigits(Tail(s), 10 * acc + DigitVal(Head(s)))

\* parseInt(str, 10): [nan |-> TRUE] when no digit follows the optional sign
parseInt(str) ==
    LET t == trim(str)
        neg == t # <<>> /\ Head(t) = "-"
        body == IF t # <<>> /\ Head(t) \in {"-", "+"} THEN Tail(t) ELSE t
    IN  IF body = <<>> \/ Head(body) \notin Digits THEN [nan |-> TRUE, val |-> 0]
        ELSE [nan |-> FALSE,
              val |-> IF neg THEN 0 - leadingDigits(body, 0) ELSE leadingDigits(body, 0)]

\* Math.min(parseInt(req.query.limit || dflt, 10) || dflt, max)
clampLimit(q, dflt, max) ==
    LET parsed == IF q = NullStr \/ q = <<>> THEN [nan |-> FALSE, val |-> dflt]
                  ELSE parseInt(q)
        n == IF parsed.nan \/ parsed.val = 0 THEN dflt ELSE parsed.val
    IN  Min(n, max)

\* ------------------------------------------------------------- requests
MediaId == <<"m", "1">>

NameAnn == <<"A", "n", "n">>

\* msg.id: the provider gives a message one id, which every delivery of the
\* message carries
messageId(from, body) == <<"wamid">> \o from \o body

textMsg(from, body) ==
    [id |-> messageId(from, body), from |-> from, type |-> "text", text_body |-> body,
     caption |-> NullStr, media_id |-> NullStr]

imageMsg(from, caption) ==
    [id |-> messageId(from, caption), from |-> from, type |-> "image", text_body |-> NullStr,
     caption |-> caption, media_id |-> MediaId]

\* body.entry[0].changes[0]: its field, value.messages and value.contacts[0]
delivery(msgs, contact) == [field |-> "messages", messages |-> msgs, contact |-> contact]

Payloads ==
    {delivery(<<textMsg(IdA, TxtTrack)>>, None),
     delivery(<<textMsg(IdA2, TxtHi)>>, None),
     delivery(<<textMsg(IdA, TxtHi), textMsg(IdB, TxtTrack)>>,
              Some([wa_id |-> IdB, name |-> NameAnn])),
     delivery(<<>>, None),
     [field |-> "statuses", messages |-> <<textMsg(IdB, TxtHi)>>, contact |-> None]}

\* deliveries that carry media
MediaPayloads ==
    {delivery(<<imageMsg(IdB, TxtTrack)>>, None),
     delivery(<<imageMsg(IdA, NullStr)>>, None)}

SendTos == {IdB, <<" ">>}

SendTexts == {TxtHi, <<>>}

\* ------------------------------------------------------------ thumbnails
\* the number of requests to /media/thumb
MaxThumbRequests == 3

\* files of customer b in logs/media
ImgJpg == <<"m", "1", ".", "j", "p", "g">>

ImgPng == <<"m", "2", ".", "P", "N", "G">>

DocPdf == <<"d", ".", "p", "d", "f">>

MediaFiles == {[wa_id |-> IdB, filename |-> f] : f \in {ImgJpg, ImgPng, DocPdf}}

\* req.params.filename of the requests
ThumbFilenames == {ImgJpg, ImgPng, DocPdf, <<"x", ".", "j", "p", "g">>}

\* String.prototype.endsWith
endsWith(str, suffix) ==
    Len(suffix) <= Len(str) /\ SubSeq(str, Len(str) - Len(suffix) + 1, Len(str)) = suffix

\* the type and the subtype of the MIME type guessed from the extension
guessMimeByExt(filename) ==
    LET f == toLowerCase(filename)
    IN  IF endsWith(f, <<".", "j", "p", "g">>) \/ endsWith(f, <<".", "j", "p", "e", "g">>)
        THEN <<"image", "jpeg">>
        ELSE IF endsWith(f, <<".", "p", "n", "g">>) THEN <<"image", "png">>
        ELSE IF endsWith(f, <<".", "w", "e", "b", "p">>) THEN <<"image", "webp">>
        ELSE IF endsWith(f, <<".", "g", "i", "f">>) THEN <<"image", "gif">>
        ELSE IF endsWith(f, <<".", "m", "p", "4">>) THEN <<"video", "mp4">>
        ELSE IF endsWith(f, <<".", "p", "d", "f">>) THEN <<"application", "pdf">>
        ELSE <<"application", "octet-stream">>

\* filename.replace(/\.[^.]+$/, "")
stemOf(filename) ==
    LET dots == {i \in 1..Len(filename) : filename[i] = "."}
        last == CHOOSE i \in dots : \A j \in dots : j <= i
    IN  IF dots = {} \/ last = Len(filename) THEN filename
        ELSE SubSeq(filename, 1, last - 1)

\* path.join(thumbsDir, waId, `${stem}.webp`)
thumbPathOf(waId, filename) == [wa_id |-> waId, stem |-> stemOf(filename)]

ThumbPaths == {thumbPathOf(safeFileName(IdB), safeFileName(f)) : f \in ThumbFilenames}

\* no media, no thumbnails, no request yet; writes counts the sharp calls
\* that have written each thumbnail
NoThumbs ==
    [media |-> {}, files |-> {}, writes |-> [t \in ThumbPaths |-> 0],
     generating |-> {}, requests |-> 0]

\* the statements of GET /media/thumb/:wa_id/:filename up to its response or
\* to the await of sharp inside ensureImageThumb
thumbSteps(media, files, waId, filename) ==
    IF [wa_id |-> waId, filename |-> filename] \notin media THEN <<"404">>
    ELSE IF guessMimeByExt(filename)[1] # "image"
    THEN <<"400">>
    ELSE IF thumbPathOf(waId, filename) \in files THEN <<"exists", "sendFile">>
    ELSE <<"sharp">>

\* ------------------------------------------------------------------ state
VARIABLES
    env,            \* process configuration: handler variant, APP_SECRET set
    now,            \* the clock read by new Date()
    byUser,         \* logs/by-user/<key>.jsonl: key -> sequence of lines
    byDate,         \* logs/by-date/messages-<day>.jsonl: day -> sequence of lines
    stateFiles,     \* logs/state/<key>.json: None or Some(object)
    pendingAppends, \* fs.appendFile calls whose callback has not run
    downloads,      \* webhook requests awaiting downloadIncomingMedia
    calls,          \* number of records created so far
    errorLog,       \* console.error("log write failed"): the appends that failed
    thumbs          \* logs/media and logs/thumbs of the media variant, sharp calls in flight

vars == <<env, now, byUser, byDate, stateFiles, pendingAppends, downloads, calls, errorLog, thumbs>>

\* server.js with APP_SECRET set
Init ==
    /\ env = [variant |-> "plain", appSecret |-> TRUE, waToken |-> TRUE, phoneNumberId |-> TRUE]
    /\ now = 1
    /\ byUser = [k \in Keys |-> <<>>]
    /\ byDate = [d \in Days |-> <<>>]
    /\ stateFiles = [k \in Keys |-> None]
    /\ pendingAppends = {}
    /\ downloads = {}
    /\ calls = 0
    /\ errorLog = {}
    /\ thumbs = NoThumbs

\* time passes
Tick ==
    /\ now < MaxClock
    /\ now' = now + 1
    /\ UNCHANGED <<env, byUser, byDate, stateFiles, pendingAppends, downloads, calls, errorLog, thumbs>>

\* the signature check left out
isValidSignature_Always(appSecret, sigGood) == TRUE

\* isValidSignature(req)
isValidSignature(appSecret, sigGood) == IF ~appSecret THEN TRUE ELSE sigGood

\* mutant: the record goes to the customer log only
appendCalls_UserOnly(record, t, responded, response) ==
    {[dir |-> "by-user", key |-> safeFileName(record.wa_id), day |-> 0,
      line |-> stringifyLine(record), responded |-> responded, response |-> response]}

\* ingestion that knows the ids it has logged: no append for an incoming
\* record whose message_id is in the customer log or on its way there
appendCalls_SkipKnown(record, t, responded, response) ==
    LET key == safeFileName(record.wa_id)
        known == \/ \E i \in 1..Len(byUser[key]) :
                       byUser[key][i][2].message_id = record.message_id
                 \/ \E p \in pendingAppends :
                       p.dir = "by-user" /\ p.key = key /\ p.line[2].message_id = record.message_id
    IN  IF record.direction = "incoming" /\ known THEN {}
        ELSE {[dir |-> "by-date", key |-> <<>>, day |-> todayFileName(t),
               line |-> <<"json", record>>, responded |-> responded, response |-> response],
              [dir |-> "by-user", key |-> key, day |-> 0,
               line |-> <<"json", record>>, responded |-> responded, response |-> response]}

\* the two appendJsonl calls of a handler: day log first, then customer log;
\* responded: the handler had sent its response before it made the calls;
\* response: the response the handler sends in the run that makes the calls
appendCalls(record, t, responded, response) ==
    {[dir |-> "by-date", key |-> <<>>, day |-> todayFileName(t),
      line |-> stringifyLine(record), responded |-> responded, response |-> response],
     [dir |-> "by-user", key |-> safeFileName(record.wa_id), day |-> 0,
      line |-> stringifyLine(record), responded |-> responded, response |-> response]}

\* an append to the customer log of key k is still pending
pendingFor(k) == \E p \in pendingAppends : p.dir = "by-user" /\ p.key = k

\* contact?.wa_id || msg.from || null
customerOf(contact, msg) == IF contact # None THEN contact[1].wa_id ELSE msg.from

\* contact?.profile?.name || null
profileOf(contact) == IF contact # None THEN contact[1].name ELSE NullStr

\* mutant: the record is built from the last message of the change
plainRecord_LastMessage(payload, t, no, raced) ==
    LET msg == payload.messages[Len(payload.messages)]
    IN  [direction |-> "incoming", received_at |-> t, sent_at |-> NullTime,
         wa_id |-> customerOf(payload.contact, msg),
         profile_name |-> profileOf(payload.contact),
         message_id |-> msg.id,
         type |-> msg.type, text |-> msg.text_body, caption |-> NullStr,
         media_id |-> NullStr, local_media_file |-> NullStr,
         tags |-> getTags(msg.text_body), no |-> no, raced |-> raced]

\* the record built by POST /webhook of server.js; no and raced are history:
\* the number of the ingestion call, and whether an append to the same
\* customer log was pending when the call was made
plainRecord(payload, t, no, raced) ==
    LET msg == payload.messages[1]
    IN  [direction |-> "incoming", received_at |-> t, sent_at |-> NullTime,
         wa_id |-> customerOf(payload.contact, msg),
         profile_name |-> profileOf(payload.contact),
         message_id |-> msg.id,
         type |-> msg.type, text |-> msg.text_body, caption |-> NullStr,
         media_id |-> NullStr, local_media_file |-> NullStr,
         tags |-> getTags(msg.text_body), no |-> no, raced |-> raced]

\* textBody || caption || ""
bodyOf(textBody, caption) ==
    IF textBody # NullStr /\ textBody # <<>> THEN textBody
    ELSE IF caption # NullStr /\ caption # <<>> THEN caption
    ELSE <<>>

\* mutant: the tags of a media record come from its text alone
mediaRecord_TagsOfText(payload, t, no, raced, localFile) ==
    LET msg == payload.messages[1]
        textBody == IF msg.type = "text" THEN msg.text_body ELSE NullStr
        caption == IF msg.type = "image" THEN msg.caption ELSE NullStr
        mediaId == IF msg.type = "image" THEN msg.media_id ELSE NullStr
    IN  [direction |-> "incoming", received_at |-> t, sent_at |-> NullTime,
         wa_id |-> customerOf(payload.contact, msg),
         profile_name |-> profileOf(payload.contact),
         message_id |-> msg.id,
         type |-> msg.type, text |-> textBody, caption |-> caption,
         media_id |-> mediaId, local_media_file |-> localFile,
         tags |-> getTags(bodyOf(textBody, NullStr)), no |-> no, raced |-> raced]

\* the record built by POST /webhook of the media variant
mediaRecord(payload, t, no, raced, localFile) ==
    LET msg == payload.messages[1]
        textBody == IF msg.type = "text" THEN msg.text_body ELSE NullStr
        caption == IF msg.type = "image" THEN msg.caption ELSE NullStr
        mediaId == IF msg.type = "image" THEN msg.media_id ELSE NullStr
    IN  [direction |-> "incoming", received_at |-> t, sent_at |-> NullTime,
         wa_id |-> customerOf(payload.contact, msg),
         profile_name |-> profileOf(payload.contact),
         message_id |-> msg.id,
         type |-> msg.type, text |-> textBody, caption |-> caption,
         media_id |-> mediaId, local_media_file |-> localFile,
         tags |-> getTags(bodyOf(textBody, caption)), no |-> no, raced |-> raced]

\* mutant: an invalid signature is rejected without the acknowledgment, and
\* the acknowledgment follows the handler's work
webhookSteps_AckLast(variant, valid, payload) ==
    IF ~valid THEN <<"invalid_signature">>
    ELSE IF payload.field # "messages" \/ Len(payload.messages) = 0 THEN <<"ignored", "ack">>
    ELSE IF variant = "media" /\ payload.messages[1].type = "image"
            /\ payload.messages[1].media_id # NullStr
         THEN <<"download">>
    ELSE <<"append", "append", "ack">>

\* what POST /webhook does before its first await, in program order:
\* "ack" is res.sendStatus(200)
webhookSteps(variant, valid, payload) ==
    <<"ack">>
    \o (IF ~valid THEN <<"invalid_signature">>
        ELSE IF payload.field # "messages" \/ Len(payload.messages) = 0 THEN <<"ignored">>
        ELSE IF variant = "media" /\ payload.messages[1].type = "image"
                /\ payload.messages[1].media_id # NullStr
             THEN <<"download">>
        ELSE <<"append", "append">>)

\* position of the first occurrence of a step, 0 when it does not occur
stepAt(steps, step) ==
    IF \E i \in 1..Len(steps) : steps[i] = step
    THEN CHOOSE i \in 1..Len(steps) : steps[i] = step /\ \A j \in 1..(i - 1) : steps[j] # step
    ELSE 0

\* the response had been sent when the handler reached the given step
respondedBefore(steps, response, step) ==
    stepAt(steps, response) # 0 /\ stepAt(steps, response) < stepAt(steps, step)

\* a new record may be created: the bounds on records and on concurrency
mayIngest ==
    /\ calls + Cardinality(downloads) < MaxCalls
    /\ Cardinality(pendingAppends) + 2 <= MaxPending

\* the effect of issuing the appendJsonl calls of one record
IssueAppends(record, t, responded, response) ==
    /\ pendingAppends' = pendingAppends \cup appendCalls(record, t, responded, response)
    /\ calls' = calls + 1

\* POST /webhook up to the end of the handler or its first await
Webhook(payload, sigGood) ==
    LET valid == isValidSignature(env.appSecret, sigGood)
        steps == webhookSteps(env.variant, valid, payload)
        customer == safeFileName(customerOf(payload.contact, payload.messages[1]))
        record == IF env.variant = "plain"
                  THEN plainRecord(payload, now, calls + 1, pendingFor(customer))
                  ELSE mediaRecord(payload, now, calls + 1, pendingFor(customer), NullStr)
    IN  /\ mayIngest
        /\ IF steps[Len(steps)] = "append"
           THEN /\ IssueAppends(record, now, respondedBefore(steps, "ack", "append"), steps[1])
                /\ UNCHANGED downloads
           ELSE IF steps[Len(steps)] = "download"
           THEN /\ downloads' = downloads \cup
                      {[payload |-> payload,
                        responded |-> respondedBefore(steps, "ack", "download"),
                        response |-> steps[1],
                        id |-> calls + Cardinality(downloads) + 1]}
                /\ UNCHANGED <<pendingAppends, calls>>
           ELSE UNCHANGED <<pendingAppends, calls, downloads>>
        /\ UNCHANGED <<env, now, byUser, byDate, stateFiles, errorLog, thumbs>>

\* mutant: a failed download ends the handler without a record
DownloadDone_FailDrops(d, ok) ==
    LET localFile == d.payload.messages[1].media_id
        customer == safeFileName(customerOf(d.payload.contact, d.payload.messages[1]))
        record == mediaRecord(d.payload, now, calls + 1, pendingFor(customer), localFile)
    IN  /\ d \in downloads
        /\ Cardinality(pendingAppends) + 2 <= MaxPending
        /\ downloads' = downloads \ {d}
        /\ IF ok THEN IssueAppends(record, now, d.responded, d.response)
                 ELSE UNCHANGED <<pendingAppends, calls>>
        /\ UNCHANGED <<env, now, byUser, byDate, stateFiles, errorLog, thumbs>>

\* downloadIncomingMedia settles and the webhook handler resumes
DownloadDone(d, ok) ==
    LET localFile == IF ok THEN d.payload.messages[1].media_id ELSE NullStr
        customer == safeFileName(customerOf(d.payload.contact, d.payload.messages[1]))
        record == mediaRecord(d.payload, now, calls + 1, pendingFor(customer), localFile)
    IN  /\ d \in downloads
        /\ Cardinality(pendingAppends) + 2 <= MaxPending
        /\ downloads' = downloads \ {d}
        /\ IssueAppends(record, now, d.responded, d.response)
        /\ UNCHANGED <<env, now, byUser, byDate, stateFiles, errorLog, thumbs>>

\* the callback of one fs.appendFile runs without error: the line is in the file
AppendDone(p) ==
    /\ p \in pendingAppends
    /\ pendingAppends' = pendingAppends \ {p}
    /\ IF p.dir = "by-user"
       THEN /\ byUser' = [byUser EXCEPT ![p.key] = appendLine(@, p.line)]
            /\ UNCHANGED byDate
       ELSE /\ byDate' = [byDate EXCEPT ![p.day] = appendLine(@, p.line)]
            /\ UNCHANGED byUser
    /\ UNCHANGED <<env, now, stateFiles, downloads, calls, errorLog, thumbs>>

\* mutant: a failed append is issued again
AppendFail_Retry(p) ==
    /\ p \in pendingAppends
    /\ errorLog' = errorLog \cup {p}
    /\ UNCHANGED <<env, now, byUser, byDate, stateFiles, pendingAppends, downloads, calls, thumbs>>

\* the callback of one fs.appendFile runs with err: console.error, nothing else
AppendFail(p) ==
    /\ p \in pendingAppends
    /\ pendingAppends' = pendingAppends \ {p}
    /\ errorLog' = errorLog \cup {p}
    /\ UNCHANGED <<env, now, byUser, byDate, stateFiles, downloads, calls, thumbs>>

\* the record built by POST /send after the provider accepted the message
outgoingRecord(to, text, t, no, raced) ==
    [direction |-> "outgoing", received_at |-> NullTime, sent_at |-> t,
     wa_id |-> to, profile_name |-> NullStr, message_id |-> NullStr,
     type |-> "text", text |-> text, caption |-> NullStr,
     media_id |-> NullStr, local_media_file |-> NullStr,
     tags |-> getTags(text), no |-> no, raced |-> raced]

\* what the provider does with the calls of one POST /send: it accepts the
\* message, answers with a status that is not OK, the first call to it
\* throws, or it answers OK with a body that r.json() cannot parse
ProviderOutcomes == {"ok", "not_ok", "throws", "bad_body"}

\* the local copy of an uploaded file kept for the preview
OutFile == <<"o", "1">>

\* the record POST /send of the media variant logs for an uploaded image
outgoingMediaRecord(to, text, t, no, raced) ==
    [direction |-> "outgoing", received_at |-> NullTime, sent_at |-> t,
     wa_id |-> to, profile_name |-> NullStr, message_id |-> NullStr,
     type |-> "image", text |-> NullStr, caption |-> IF text = <<>> THEN NullStr ELSE text,
     media_id |-> MediaId, local_media_file |-> OutFile,
     tags |-> getTags(text), no |-> no, raced |-> raced]

\* the statements of POST /send after validation: the provider call, then
\* inside one try the copy of the uploaded file and the two appendJsonl calls
providerSteps(hasFile, provider, copyOk) ==
    IF provider = "throws" THEN <<"fetch", "internal_error">>
    ELSE IF provider = "not_ok" THEN <<"fetch", "send_failed">>
    ELSE IF provider = "bad_body" THEN <<"fetch", "internal_error">>
    ELSE IF hasFile /\ ~copyOk THEN <<"fetch", "outgoing_log_error", "sent">>
    ELSE IF hasFile THEN <<"fetch", "copy", "append", "append", "sent">>
    ELSE <<"fetch", "append", "append", "sent">>

\* the statements POST /send executes, in order, in the variant of e
sendSteps(e, to, text, hasFile, provider, copyOk) ==
    IF e.variant = "plain"
    THEN IF to = <<>> \/ text = <<>> THEN <<"missing_to_or_text">>
         ELSE IF ~e.waToken THEN <<"missing_wa_token">>
         ELSE IF ~e.phoneNumberId THEN <<"missing_phone_number_id">>
         ELSE providerSteps(FALSE, provider, copyOk)
    ELSE IF to = <<>> THEN <<"missing_to">>
         ELSE IF ~e.waToken THEN <<"missing_wa_token">>
         ELSE IF ~e.phoneNumberId THEN <<"missing_phone_number_id">>
         ELSE IF ~hasFile /\ text = <<>> THEN <<"missing_text_or_file">>
         ELSE IF hasFile /\ provider = "throws" THEN <<"upload", "internal_error">>
         ELSE IF hasFile THEN <<"upload">> \o providerSteps(TRUE, provider, copyOk)
         ELSE providerSteps(FALSE, provider, copyOk)

\* POST /send: validation, the provider call, the outgoing log. A file is
\* uploaded to the media variant only.
Send(rawTo, rawText, hasFile, provider, copyOk) ==
    LET to == trim(rawTo)
        text == trim(rawText)
        steps == sendSteps(env, to, text, hasFile, provider, copyOk)
        raced == pendingFor(safeFileName(to))
        record == IF hasFile THEN outgoingMediaRecord(to, text, now, calls + 1, raced)
                  ELSE outgoingRecord(to, text, now, calls + 1, raced)
    IN  /\ mayIngest
        /\ hasFile => env.variant = "media"
        /\ IF stepAt(steps, "append") # 0
           THEN IssueAppends(record, now, respondedBefore(steps, "sent", "append"),
                             steps[Len(steps)])
           ELSE UNCHANGED <<pendingAppends, calls>>
        /\ errorLog' = IF stepAt(steps, "outgoing_log_error") # 0
                       THEN errorLog \cup {[error |-> "outgoing log error", to |-> to]}
                       ELSE errorLog
        /\ UNCHANGED <<env, now, byUser, byDate, stateFiles, downloads, thumbs>>

\* fs.readdirSync(byUserDir).filter(f => f.endsWith(".jsonl")), without ".jsonl"
customerFiles == {k \in Keys : byUser[k] # <<>>}

\* the summary of the customer file k as GET /customers and GET /ui compute it
summaryOf(k) == summarizeCustomer(byUser[k], stateFiles[statePath(k)], k)

\* the summaries pushed by GET /customers and GET /ui before filtering
summaries == {summaryOf(k)[1] : k \in {f \in customerFiles : summaryOf(f) # None}}

\* the response of GET /customers, and the list GET /ui renders without
\* filters: 500 when summarizeCustomer threw, else the summaries
customersResponse ==
    IF \E k \in customerFiles : summaryOf(k) = Thrown
    THEN [status |-> 500, customers |-> {}]
    ELSE [status |-> 200, customers |-> summaries]

\* the comparator of customers.sort with the operands exchanged
compareLastTime_Ascending(a, b) == isoToMs(a.last_time) - isoToMs(b.last_time)

\* the comparator of customers.sort: negative when a goes before b
compareLastTime(a, b) == isoToMs(b.last_time) - isoToMs(a.last_time)

\* Array.prototype.sort is stable: c goes in front of the first summary it
\* strictly precedes, behind the summaries it ties with
RECURSIVE insertSorted(_, _)
insertSorted(sorted, c) ==
    IF sorted = <<>> THEN <<c>>
    ELSE IF compareLastTime(c, Head(sorted)) < 0 THEN <<c>> \o sorted
    ELSE <<Head(sorted)>> \o insertSorted(Tail(sorted), c)

\* customers.sort((a, b) => isoToMs(b.last_time) - isoToMs(a.last_time))
RECURSIVE sortCustomers(_)
sortCustomers(list) ==
    IF list = <<>> THEN <<>>
    ELSE insertSorted(sortCustomers(SubSeq(list, 1, Len(list) - 1)), list[Len(list)])

\* the orders in which fs.readdirSync may list the customer files
readdirOrders ==
    {o \in [1..Cardinality(customerFiles) -> customerFiles] :
        \A i, j \in DOMAIN o : o[i] = o[j] => i = j}

\* the loop of GET /customers over the files: customers.push(summary) for
\* every file that has a summary
RECURSIVE pushSummaries(_)
pushSummaries(files) ==
    IF files = <<>> THEN <<>>
    ELSE IF summaryOf(Head(files)) = None THEN pushSummaries(Tail(files))
    ELSE <<summaryOf(Head(files))[1]>> \o pushSummaries(Tail(files))

\* the customers array GET /customers answers with, for a directory order
customersList(files) == sortCustomers(pushSummaries(files))

\* now - ms < hours * 3600 * 1000: the end of the interval left out
withinLastHours_Strict(iso, hours) ==
    LET ms == isoToMs(iso)
    IN  IF ms = 0 THEN FALSE ELSE now - ms < hours

\* now - ms <= hours * 3600 * 1000, false for a time that does not parse
withinLastHours(iso, hours) ==
    LET ms == isoToMs(iso)
    IN  IF ms = 0 THEN FALSE ELSE now - ms <= hours

\* x || "" for a string x
orEmpty(x) == IF x = NullStr THEN <<>> ELSE x

\* the query strings of GET /ui: q as typed, unread and recent24 as sent,
\* tag after trim and toLowerCase ("" when absent)
UiQueries ==
    [q : {NullStr, <<"a">>, <<" ", "A", "N", "N">>},
     unread : {NullStr, <<"1">>},
     recent24 : {NullStr, <<"1">>},
     tag : {"", "logistics", "pre_sales", "constructor"}]

\* property names every object literal inherits: summary.tags[name] is a
\* function, which is truthy
InheritedNames == {"constructor"}

\* (summary.tags && summary.tags[tag]) || 0, as a truth value
hasTag(summary, tag) ==
    \/ tag \in DOMAIN summary.tags /\ summary.tags[tag] # 0
    \/ tag \in InheritedNames

\* the filters of GET /ui joined by "or": a summary is kept when one given
\* filter accepts it
keepsCustomer_AnyFilter(summary, query) ==
    LET q == toLowerCase(trim(orEmpty(query.q)))
        unreadOnly == query.unread = <<"1">>
        recent24 == query.recent24 = <<"1">>
        hay == toLowerCase(summary.wa_id \o <<" ">> \o orEmpty(summary.profile_name)
                           \o <<" ">> \o orEmpty(summary.last_text))
    IN  \/ ~unreadOnly /\ ~recent24 /\ q = <<>> /\ query.tag = ""
        \/ unreadOnly /\ summary.unread_count > 0
        \/ recent24 /\ withinLastHours(summary.last_time, RecentHours)
        \/ q # <<>> /\ Includes(hay, q)
        \/ query.tag # "" /\ hasTag(summary, query.tag)

\* the filters of GET /ui: a summary is pushed when no filter says continue
keepsCustomer(summary, query) ==
    LET q == toLowerCase(trim(orEmpty(query.q)))
        unreadOnly == query.unread = <<"1">>
        recent24 == query.recent24 = <<"1">>
        hay == toLowerCase(summary.wa_id \o <<" ">> \o orEmpty(summary.profile_name)
                           \o <<" ">> \o orEmpty(summary.last_text))
    IN  /\ ~(unreadOnly /\ summary.unread_count <= 0)
        /\ ~(recent24 /\ ~withinLastHours(summary.last_time, RecentHours))
        /\ ~(q # <<>> /\ ~Includes(hay, q))
        /\ ~(query.tag # "" /\ ~hasTag(summary, query.tag))

\* the loop of GET /ui over the files: the summaries that pass the filters
RECURSIVE pushFiltered(_, _)
pushFiltered(files, query) ==
    IF files = <<>> THEN <<>>
    ELSE LET summary == summaryOf(Head(files))
         IN  IF summary = None THEN pushFiltered(Tail(files), query)
             ELSE IF ~keepsCustomer(summary[1], query) THEN pushFiltered(Tail(files), query)
             ELSE <<summary[1]>> \o pushFiltered(Tail(files), query)

\* the customers GET /ui renders, for a directory order and a query
uiCustomers(files, query) == sortCustomers(pushFiltered(files, query))

\* the response of GET /customers/:wa_id/messages that read the last n lines
messagesResponse(content, n) ==
    [status |-> 200, count |-> Len(readJsonlLastN(content, n)),
     messages |-> readJsonlLastN(content, n)]

\* the response of GET /ui/customer/:wa_id without filters: the rows it shows
chatResponse(content, n) == [status |-> 200, messages |-> readJsonlLastN(content, n)]

\* GET /customers and GET /ui: read the logs and the state files only
ListCustomers(route) ==
    /\ route \in {"customers", "ui"}
    /\ UNCHANGED vars

\* the limit of GET /customers/:wa_id/messages
apiLimit(limitQ) == clampLimit(limitQ, ApiDefaultLimit, ApiMaxLimit)

\* the state file after GET /customers/:wa_id/messages has read the last n
\* lines of the log: the handler reads the log only
messagesState(content, file, n) == file

\* GET /customers/:wa_id/messages
GetMessages(rawId, limitQ) ==
    LET waId == safeFileName(rawId)
    IN  /\ stateFiles' = [stateFiles EXCEPT ![statePath(waId)] =
                            messagesState(byUser[waId], @, apiLimit(limitQ))]
        /\ UNCHANGED <<env, now, byUser, byDate, pendingAppends, downloads, calls, errorLog, thumbs>>

\* mutant: isoToMs(latestIncoming) >= lastSeenMs
shouldMarkRead_Geq(latestIncoming, lastSeenMs) ==
    latestIncoming # NullTime /\ isoToMs(latestIncoming) >= lastSeenMs

\* mutant: the chat view writes the last incoming timestamp without comparing
shouldMarkRead_Always(latestIncoming, lastSeenMs) == latestIncoming # NullTime

\* if (latestIncoming && isoToMs(latestIncoming) > lastSeenMs)
shouldMarkRead(latestIncoming, lastSeenMs) ==
    latestIncoming # NullTime /\ isoToMs(latestIncoming) > lastSeenMs

\* the limit of GET /ui/customer/:wa_id
chatLimit(limitQ) == clampLimit(limitQ, ChatDefaultLimit, ChatMaxLimit)

\* the chat view that read the last n lines of the log calls writeState
viewWrites(content, file, n) ==
    shouldMarkRead(lastIncomingAt(readJsonlLastN(content, n), NullTime),
                   isoToMs(readState(file).last_seen_incoming_at))

\* the state file after the chat view has read the last n lines of the log
viewedState(content, file, n) ==
    IF viewWrites(content, file, n)
    THEN writeState(file, [last_seen_incoming_at |->
                             lastIncomingAt(readJsonlLastN(content, n), NullTime)])
    ELSE file

\* the watermark read after the mark-as-read step of the same view
lastSeenOfView_AfterWrite(content, file, n) ==
    isoToMs(readState(viewedState(content, file, n)).last_seen_incoming_at)

\* const st = readState(waId); const lastSeenMs = isoToMs(st.last_seen_incoming_at):
\* read before the filter and before the mark-as-read step
lastSeenOfView(content, file, n) == isoToMs(readState(file).last_seen_incoming_at)

\* the filter unread of the chat view lets the row r through
passesUnreadOnly(r, lastSeenMs) ==
    /\ r.direction = "incoming"
    /\ ~(isoToMs(r.received_at) = 0 \/ isoToMs(r.received_at) <= lastSeenMs)

\* the bubble of the row r carries the unread dot
unreadMark(r, lastSeenMs) ==
    r.direction = "incoming" /\ isoToMs(r.received_at) # 0 /\ isoToMs(r.received_at) > lastSeenMs

\* the bubbles of GET /ui/customer/:wa_id that read the last n lines, with
\* or without the filter unread: the rows shown and their unread dots
chatBubbles(content, file, n, unreadOnly) ==
    LET rows == readJsonlLastN(content, n)
        lastSeenMs == lastSeenOfView(content, file, n)
        keep(r) == ~unreadOnly \/ passesUnreadOnly(r, lastSeenMs)
        filtered == SelectSeq(rows, keep)
    IN  [i \in 1..Len(filtered) |->
            [row |-> filtered[i], unread |-> unreadMark(filtered[i], lastSeenMs)]]

\* GET /ui/customer/:wa_id: read the window, then mark all incoming as read
ChatView(rawId, limitQ) ==
    LET waId == safeFileName(rawId)
    IN  /\ stateFiles' = [stateFiles EXCEPT ![statePath(waId)] =
                            viewedState(byUser[waId], @, chatLimit(limitQ))]
        /\ UNCHANGED <<env, now, byUser, byDate, pendingAppends, downloads, calls, errorLog, thumbs>>

\* how the mark-as-read step of a chat view can go wrong: fs.writeFileSync
\* throws when it opens the file, it throws after it has truncated the file,
\* or the process stops before the call and starts again
WriteFailures == {"open_fails", "write_fails", "stopped"}

\* GET /ui/customer/:wa_id whose writeState call does not complete: writeState
\* catches and prints the error; a process that stops before the call leaves
\* the files as they are
ChatViewFails(rawId, limitQ, failure) ==
    LET waId == safeFileName(rawId)
    IN  /\ viewWrites(byUser[waId], stateFiles[statePath(waId)], chatLimit(limitQ))
        /\ stateFiles' = [stateFiles EXCEPT ![statePath(waId)] =
                            IF failure = "write_fails" THEN TornState ELSE @]
        /\ errorLog' = IF failure = "stopped" THEN errorLog
                       ELSE errorLog \cup {[error |-> "writeState error", key |-> statePath(waId)]}
        /\ UNCHANGED <<env, now, byUser, byDate, pendingAppends, downloads, calls, thumbs>>

\* ------------------------------------------------------------- basic auth
\* UI_USER and UI_PASS when they are configured
UiUser == <<"u">>

UiPass == <<"p">>

\* Buffer.from(b64, "base64").toString("utf8") and its inverse
toBase64(str) == <<"base64", str>>

fromBase64(b64) == b64[2]

\* an Authorization header: None, or its first six characters and the rest
authHeader(scheme, credentials) == Some([scheme |-> scheme, b64 |-> toBase64(credentials)])

BasicScheme == <<"B", "a", "s", "i", "c", " ">>

Headers ==
    {None,
     authHeader(<<"B", "e", "a", "r", "e", "r">>, <<"u", ":", "p">>),
     authHeader(BasicScheme, <<"u", ":", "p">>),
     authHeader(BasicScheme, <<"u", ":", "x">>),
     authHeader(BasicScheme, <<"u", "p">>)}

\* String.prototype.indexOf for one character, counted from 0
indexOf(str, ch) ==
    IF \E i \in 1..Len(str) : str[i] = ch
    THEN (CHOOSE i \in 1..Len(str) : str[i] = ch /\ \A j \in 1..(i - 1) : str[j] # ch) - 1
    ELSE -1

protectedPrefixes(variant) ==
    {<<"/", "u", "i">>, <<"/", "c", "u", "s", "t", "o", "m", "e", "r", "s">>,
     <<"/", "s", "e", "n", "d">>}
    \cup (IF variant = "media" THEN {<<"/", "m", "e", "d", "i", "a">>} ELSE {})

\* the paths the media variant lets through before the prefix test
openPaths(variant) ==
    IF variant = "media"
    THEN {<<"/">>, <<"/", "_", "_", "v", "e", "r", "s", "i", "o", "n">>}
    ELSE {}

\* basicAuth: "next" when the request goes on to the routes, else the status
basicAuth(variant, path, header, uiUser, uiPass) ==
    IF path = <<"/", "w", "e", "b", "h", "o", "o", "k">> THEN "next"
    ELSE IF path \in openPaths(variant) THEN "next"
    ELSE IF ~(\E p \in protectedPrefixes(variant) : IsPrefix(p, path)) THEN "next"
    ELSE IF uiUser = None \/ uiPass = None THEN "500"
    ELSE IF header = None \/ header[1].scheme # BasicScheme THEN "401"
    ELSE LET decoded == fromBase64(header[1].b64)
             idx == indexOf(decoded, ":")
         IN  IF idx < 0 THEN "401"
             ELSE IF SubSeq(decoded, 1, idx) # uiUser[1]
                     \/ SliceFrom(decoded, idx + 1) # uiPass[1] THEN "401"
             ELSE "next"

\* the segments of a request path between its slashes
RECURSIVE segments(_, _, _)
segments(path, i, cur) ==
    LET done == IF cur = <<>> THEN <<>> ELSE <<cur>>
    IN  IF i > Len(path) THEN done
        ELSE IF path[i] = "/" THEN done \o segments(path, i + 1, <<>>)
        ELSE segments(path, i + 1, Append(cur, path[i]))

\* a route parameter
Param == <<":">>

\* app.get and app.post in the order of registration
routes(variant) ==
    <<[method |-> "GET", pattern |-> <<>>, handler |-> "ok"],
      [method |-> "GET", pattern |-> <<<<"w", "e", "b", "h", "o", "o", "k">>>>, handler |-> "verify"],
      [method |-> "POST", pattern |-> <<<<"w", "e", "b", "h", "o", "o", "k">>>>, handler |-> "webhook"]>>
    \o (IF variant = "media"
        THEN <<[method |-> "GET",
                pattern |-> <<<<"m", "e", "d", "i", "a">>, <<"t", "h", "u", "m", "b">>, Param, Param>>,
                handler |-> "thumb"]>>
        ELSE <<>>)
    \o <<[method |-> "GET", pattern |-> <<<<"c", "u", "s", "t", "o", "m", "e", "r", "s">>>>,
          handler |-> "customers"],
         [method |-> "GET",
          pattern |-> <<<<"c", "u", "s", "t", "o", "m", "e", "r", "s">>, Param,
                        <<"m", "e", "s", "s", "a", "g", "e", "s">>>>,
          handler |-> "messages"],
         [method |-> "GET", pattern |-> <<<<"u", "i">>>>, handler |-> "ui"],
         [method |-> "GET",
          pattern |-> <<<<"u", "i">>, <<"c", "u", "s", "t", "o", "m", "e", "r">>, Param>>,
          handler |-> "chat"],
         [method |-> "GET", pattern |-> <<<<"s", "e", "n", "d">>>>, handler |-> "sendForm"],
         [method |-> "POST", pattern |-> <<<<"s", "e", "n", "d">>>>, handler |-> "send"]>>

\* the route matching of an app created by express() with its default
\* settings: letter case is ignored and a trailing slash is optional
matchesRoute(route, method, path) ==
    LET segs == segments(path, 1, <<>>)
    IN  /\ route.method = method
        /\ Len(segs) = Len(route.pattern)
        /\ \A i \in 1..Len(segs) :
              route.pattern[i] = Param \/ toLowerCase(segs[i]) = route.pattern[i]

\* the handler Express runs for a request, "none" when no route matches
routeOf(variant, method, path) ==
    LET table == routes(variant)
        hits == {i \in 1..Len(table) : matchesRoute(table[i], method, path)}
    IN  IF hits = {} THEN "none"
        ELSE table[CHOOSE i \in hits : \A j \in hits : i <= j].handler

\* req.params.wa_id of a matched request
waIdParam(handler, path) ==
    LET segs == segments(path, 1, <<>>)
    IN  IF handler = "chat" THEN segs[3] ELSE segs[2]

\* the requests a client sends
Requests ==
    {[method |-> "GET", path |-> <<"/">>],
     [method |-> "POST", path |-> <<"/", "w", "e", "b", "h", "o", "o", "k">>],
     [method |-> "GET", path |-> <<"/", "u", "i", "/", "c", "u", "s", "t", "o", "m", "e", "r", "/", "b">>],
     [method |-> "GET", path |-> <<"/", "U", "I", "/", "c", "u", "s", "t", "o", "m", "e", "r", "/", "b">>],
     [method |-> "GET", path |-> <<"/", "c", "u", "s", "t", "o", "m", "e", "r", "s">>],
     [method |-> "GET",
      path |-> <<"/", "C", "u", "s", "t", "o", "m", "e", "r", "s", "/", "b", "/", "m", "e", "s", "s", "a", "g", "e", "s">>],
     [method |-> "POST", path |-> <<"/", "s", "e", "n", "d">>],
     [method |-> "POST", path |-> <<"/", "S", "e", "n", "d">>],
     [method |-> "GET", path |-> <<"/", "m", "e", "d", "i", "a", "/", "t", "h", "u", "m", "b", "/", "b", "/", "f">>]}

\* the configurations and the answers of basicAuth and of the router for
\* every request, computed once
Variants == {"plain", "media"}

AuthConfigs ==
    {[uiUser |-> None, uiPass |-> None],
     [uiUser |-> Some(UiUser), uiPass |-> None],
     [uiUser |-> Some(UiUser), uiPass |-> Some(UiPass)]}

verdictOf ==
    [v \in Variants |-> [c \in AuthConfigs |-> [r \in Requests |-> [h \in Headers |->
        basicAuth(v, r.path, h, c.uiUser, c.uiPass)]]]]

handlerOf == [v \in Variants |-> [r \in Requests |-> routeOf(v, r.method, r.path)]]

\* one request through app.use(basicAuth) and the routes
Request(r, header) ==
    LET verdict == verdictOf[env.variant][[uiUser |-> env.uiUser, uiPass |-> env.uiPass]][r][header]
        handler == handlerOf[env.variant][r]
    IN  IF verdict # "next"
        THEN UNCHANGED vars
        ELSE \/ /\ handler = "webhook"
                /\ Webhook(delivery(<<textMsg(IdB, TxtHi)>>, None), TRUE)
             \/ /\ handler = "send"
                /\ Send(IdB, TxtHi, FALSE, "ok", TRUE)
             \/ /\ handler \in {"customers", "ui"}
                /\ ListCustomers(handler)
             \/ /\ handler = "messages"
                /\ GetMessages(waIdParam(handler, r.path), NullStr)
             \/ /\ handler = "chat"
                /\ ChatView(waIdParam(handler, r.path), NullStr)
             \/ /\ handler \in {"ok", "verify", "sendForm", "thumb", "none"}
                /\ UNCHANGED vars

\* GET /media/thumb/:wa_id/:filename up to its response or to the await of
\* sharp: a request that finds no thumbnail starts a generation
ThumbRequest(rawId, rawName) ==
    LET waId == safeFileName(rawId)
        filename == safeFileName(rawName)
        steps == thumbSteps(thumbs.media, thumbs.files, waId, filename)
    IN  /\ env.variant = "media"
        /\ thumbs.requests < MaxThumbRequests
        /\ thumbs' = [thumbs EXCEPT
                        !.requests = @ + 1,
                        !.generating = IF steps = <<"sharp">>
                                       THEN @ \cup {[no |-> thumbs.requests + 1,
                                                     path |-> thumbPathOf(waId, filename)]}
                                       ELSE @]
        /\ UNCHANGED <<env, now, byUser, byDate, stateFiles, pendingAppends, downloads, calls, errorLog>>

\* sharp(...).toFile(thumbPath) settles: it has written the thumbnail and
\* the handler sends it, or it throws and the handler answers 500
ThumbGenerated(g, ok) ==
    /\ g \in thumbs.generating
    /\ thumbs' = [thumbs EXCEPT
                    !.generating = @ \ {g},
                    !.files = IF ok THEN @ \cup {g.path} ELSE @,
                    !.writes[g.path] = IF ok THEN @ + 1 ELSE @]
    /\ UNCHANGED <<env, now, byUser, byDate, stateFiles, pendingAppends, downloads, calls, errorLog>>

Next ==
    \/ Tick
    \/ \E payload \in Payloads, sigGood \in BOOLEAN : Webhook(payload, sigGood)
    \/ \E p \in pendingAppends : AppendDone(p)
    \/ \E to \in SendTos, text \in SendTexts, provider \in ProviderOutcomes :
          Send(to, text, FALSE, provider, TRUE)
    \/ \E route \in {"customers", "ui"} : ListCustomers(route)
    \/ \E w \in RawIds, q \in HandlerLimits : GetMessages(w, q)
    \/ \E w \in RawIds, q \in HandlerLimits : ChatView(w, q)

Spec == Init /\ [][Next]_vars

\* either variant of the webhook handler, with or without APP_SECRET
InitIngest ==
    /\ env \in [variant : {"plain", "media"}, appSecret : BOOLEAN,
                waToken : {TRUE}, phoneNumberId : {TRUE}]
    /\ now = 1
    /\ byUser = [k \in Keys |-> <<>>]
    /\ byDate = [d \in Days |-> <<>>]
    /\ stateFiles = [k \in Keys |-> None]
    /\ pendingAppends = {}
    /\ downloads = {}
    /\ calls = 0
    /\ errorLog = {}
    /\ thumbs = NoThumbs

\* the ingestion path: POST /webhook, its media download, POST /send, the appends
NextIngest ==
    \/ Tick
    \/ \E payload \in Payloads \cup MediaPayloads, sigGood \in BOOLEAN : Webhook(payload, sigGood)
    \/ \E d \in downloads, ok \in BOOLEAN : DownloadDone(d, ok)
    \/ \E p \in pendingAppends : AppendDone(p)
    \/ \E to \in SendTos, text \in SendTexts, provider \in ProviderOutcomes :
          Send(to, text, FALSE, provider, TRUE)

SpecIngest == InitIngest /\ [][NextIngest]_vars

\* every fs.appendFile call completes: the callback of a pending call runs
AppendsComplete == WF_vars(\E p \in pendingAppends : AppendDone(p))

\* server.js on a disk whose writes succeed
SpecLive == Init /\ [][Next]_vars /\ AppendsComplete

\* records found in a customer log at startup: an incoming message with a
\* contact name, a reply, a later incoming message without a name that
\* gets two tags
OldRecords ==
    {plainRecord(delivery(<<textMsg(IdB, TxtTrack)>>,
                          Some([wa_id |-> IdB, name |-> NameAnn])), 1, 1, FALSE),
     outgoingRecord(IdB, TxtHi, 2, 2, FALSE),
     plainRecord(delivery(<<textMsg(IdB, TxtRefund)>>, None), 2, 3, FALSE)}

\* lines found in a customer log at startup
OldLines ==
    {stringifyLine(r) : r \in OldRecords}
    \cup {tornLine(plainRecord(delivery(<<textMsg(IdB, TxtHi)>>, None), 1, 0, FALSE))}

\* customer logs found at startup: up to MaxCalls lines
OldLogs == UNION {[1..n -> OldLines] : n \in 0..MaxCalls}

\* state files found at startup: none, one written by writeState, one that
\* holds a further field, one without a watermark
OldStates ==
    {None,
     Some([last_seen_incoming_at |-> 1]),
     Some([last_seen_incoming_at |-> 1, note |-> "vip"]),
     Some([note |-> "vip"])}

\* the process starts on the files of an earlier run: the log and state of
\* customer IdB, and for the other customer no log or a log of one torn line
InitFiles ==
    /\ env = [variant |-> "plain", appSecret |-> TRUE, waToken |-> TRUE, phoneNumberId |-> TRUE]
    /\ now = MaxClock
    /\ \E log \in OldLogs, other \in {<<>>, <<tornLine(outgoingRecord(IdA2, TxtHi, 1, 0, FALSE))>>} :
          byUser = [k \in Keys |-> IF k = safeFileName(IdB) THEN log ELSE other]
    /\ byDate = [d \in Days |-> <<>>]
    /\ \E st \in OldStates :
          stateFiles = [k \in Keys |-> IF k = statePath(IdB) THEN st ELSE None]
    /\ pendingAppends = {}
    /\ downloads = {}
    /\ calls = MaxCalls
    /\ errorLog = {}
    /\ thumbs = NoThumbs

\* the read paths: the customer list, the message list, the chat view
NextFiles ==
    \/ \E route \in {"customers", "ui"} : ListCustomers(route)
    \/ \E w \in RawIds, q \in HandlerLimits : GetMessages(w, q)
    \/ \E w \in RawIds, q \in HandlerLimits : ChatView(w, q)

SpecFiles == InitFiles /\ [][NextFiles]_vars

\* server.js on a disk whose writes may fail: ingestion, appends that land
\* or fail, and the customer list
NextFaulty ==
    \/ Tick
    \/ \E payload \in Payloads, sigGood \in BOOLEAN : Webhook(payload, sigGood)
    \/ \E p \in pendingAppends : AppendDone(p)
    \/ \E p \in pendingAppends : AppendFail(p)
    \/ \E to \in SendTos, text \in SendTexts, provider \in ProviderOutcomes :
          Send(to, text, FALSE, provider, TRUE)
    \/ \E route \in {"customers", "ui"} : ListCustomers(route)

SpecFaulty == Init /\ [][NextFaulty]_vars

\* an incoming text record of customer w found in a log at startup
oldIncoming(w, body, t, no, contact) ==
    plainRecord(delivery(<<textMsg(w, body)>>, contact), t, no, FALSE)

\* customer logs found at startup by the customer list: none, one message
\* of the first tick from a named contact, two messages of the second tick,
\* one record whose received_at does not parse
ListLogs(w) ==
    {<<>>,
     <<stringifyLine(oldIncoming(w, TxtTrack, 1, 1, Some([wa_id |-> w, name |-> NameAnn])))>>,
     <<stringifyLine(oldIncoming(w, TxtHi, 2, 2, None)),
       stringifyLine(oldIncoming(w, TxtRefund, 2, 3, None))>>,
     <<stringifyLine([oldIncoming(w, TxtHi, 1, 1, None) EXCEPT !.received_at = NullTime])>>}

\* the process starts on the files of an earlier run: a log for each of
\* three customers, a state file for two of them, one or two ticks after
\* the last record
InitList ==
    /\ env = [variant |-> "plain", appSecret |-> TRUE, waToken |-> TRUE, phoneNumberId |-> TRUE]
    /\ now \in {MaxClock, MaxClock + 1}
    /\ \E la \in ListLogs(IdA2), lb \in ListLogs(IdB), lc \in ListLogs(IdC) :
          byUser = [k \in Keys |-> IF k = safeFileName(IdA2) THEN la
                                   ELSE IF k = safeFileName(IdB) THEN lb ELSE lc]
    /\ byDate = [d \in Days |-> <<>>]
    /\ \E sa, sb \in {None, Some([last_seen_incoming_at |-> 1])} :
          stateFiles = [k \in Keys |-> IF k = statePath(IdA2) THEN sa
                                       ELSE IF k = statePath(IdB) THEN sb ELSE None]
    /\ pendingAppends = {}
    /\ downloads = {}
    /\ calls = MaxCalls
    /\ errorLog = {}
    /\ thumbs = NoThumbs

\* the customer list and the message list, which write nothing
NextList ==
    \/ \E route \in {"customers", "ui"} : ListCustomers(route)
    \/ \E w \in RawIds, q \in HandlerLimits : GetMessages(w, q)

SpecList == InitList /\ [][NextList]_vars

\* either variant starts with or without its two settings for the provider
InitSend ==
    /\ env \in [variant : {"plain", "media"}, appSecret : {TRUE},
                waToken : BOOLEAN, phoneNumberId : BOOLEAN]
    /\ now = 1
    /\ byUser = [k \in Keys |-> <<>>]
    /\ byDate = [d \in Days |-> <<>>]
    /\ stateFiles = [k \in Keys |-> None]
    /\ pendingAppends = {}
    /\ downloads = {}
    /\ calls = 0
    /\ errorLog = {}
    /\ thumbs = NoThumbs

\* the send path: POST /send with or without a file, and the appends
NextSend ==
    \/ Tick
    \/ \E to \in SendTos, text \in SendTexts, file \in BOOLEAN,
          provider \in ProviderOutcomes, copyOk \in BOOLEAN :
          Send(to, text, file, provider, copyOk)
    \/ \E p \in pendingAppends : AppendDone(p)

SpecSend == InitSend /\ [][NextSend]_vars

\* server.js on a disk where writing a state file may fail and with a
\* process that may stop in a chat view
NextStateFaulty ==
    \/ Tick
    \/ \E payload \in Payloads, sigGood \in BOOLEAN : Webhook(payload, sigGood)
    \/ \E p \in pendingAppends : AppendDone(p)
    \/ \E w \in RawIds, q \in HandlerLimits : ChatView(w, q)
    \/ \E w \in RawIds, q \in HandlerLimits, failure \in WriteFailures :
          ChatViewFails(w, q, failure)

SpecStateFaulty == Init /\ [][NextStateFaulty]_vars

\* the media variant with downloaded media of customer b and no thumbnail
InitThumb ==
    /\ env = [variant |-> "media", appSecret |-> TRUE, waToken |-> TRUE, phoneNumberId |-> TRUE]
    /\ now = 1
    /\ byUser = [k \in Keys |-> <<>>]
    /\ byDate = [d \in Days |-> <<>>]
    /\ stateFiles = [k \in Keys |-> None]
    /\ pendingAppends = {}
    /\ downloads = {}
    /\ calls = 0
    /\ errorLog = {}
    /\ thumbs = [NoThumbs EXCEPT !.media = MediaFiles]

\* requests for thumbnails and the sharp calls they wait for
NextThumb ==
    \/ \E f \in ThumbFilenames : ThumbRequest(IdB, f)
    \/ \E g \in thumbs.generating, ok \in BOOLEAN : ThumbGenerated(g, ok)

SpecThumb == InitThumb /\ [][NextThumb]_vars

\* either variant behind basicAuth, with UI_USER and UI_PASS set or not
InitAuth ==
    /\ \E v \in Variants, c \in AuthConfigs :
          env = [variant |-> v, appSecret |-> TRUE, waToken |-> TRUE, phoneNumberId |-> TRUE,
                 uiUser |-> c.uiUser, uiPass |-> c.uiPass]
    /\ now = 1
    /\ byUser = [k \in Keys |-> <<>>]
    /\ byDate = [d \in Days |-> <<>>]
    /\ stateFiles = [k \in Keys |-> None]
    /\ pendingAppends = {}
    /\ downloads = {}
    /\ calls = 0
    /\ errorLog = {}
    /\ thumbs = NoThumbs

\* every operation arrives as a request; the clock stands still
NextAuth ==
    \/ \E r \in Requests, h \in Headers : Request(r, h)
    \/ \E p \in pendingAppends : AppendDone(p)

SpecAuth == InitAuth /\ [][NextAuth]_vars

\* ----------------------------------------------------------------- claims
\* the stored watermark of a state file, in milliseconds
storedMs(file) == isoToMs(readState(file).last_seen_incoming_at)

\* the stored watermark of the state file of key k, in milliseconds
watermarkMs(k) == storedMs(stateFiles[k])

\* the parsed records of the whole customer log of key k
allRows(k) == parsedRows(byUser[k])

\* C1: no step lowers the stored watermark of a customer (no state file
\* counting as the earliest possible watermark),
\* and every step that changes a state file stores a timestamp strictly
\* greater than the one stored before and is a chat view of that customer.
C1_WatermarkMonotonic ==
    [][\A k \in Keys :
         /\ storedMs(stateFiles'[k]) >= storedMs(stateFiles[k])
         /\ stateFiles'[k] # stateFiles[k] =>
              /\ storedMs(stateFiles'[k]) > storedMs(stateFiles[k])
              /\ \E w \in RawIds, q \in HandlerLimits :
                    statePath(safeFileName(w)) = k /\ ChatView(w, q)]_vars

\* C1 witness: a watermark was written and the log now ends with an incoming
\* record older than it, so a later view must not write
C1_Witness ==
    \E k \in Keys :
        /\ stateFiles[k] # None
        /\ lastIncomingAt(allRows(k), NullTime) # NullTime
        /\ isoToMs(lastIncomingAt(allRows(k), NullTime)) < watermarkMs(k)

\* C2: after a chat view of a customer opened without a limit parameter,
\* summarizeCustomer returns unread_count = 0 for that customer.
C2_ViewClearsUnread ==
    [][\A w \in RawIds :
         ChatView(w, NullStr) =>
            LET k == safeFileName(w)
                after == summarizeCustomer(byUser'[k], stateFiles'[statePath(k)], k)
            IN  after # None => after[1].unread_count = 0]_vars

\* the records are in the order of their ingestion calls
inCallOrder(rows) == \A i, j \in 1..Len(rows) : i < j => rows[i].no < rows[j].no

\* the last n elements of a sequence
lastN(rows, n) == SubSeq(rows, Len(rows) - Min(Max(n, 0), Len(rows)) + 1, Len(rows))

\* C3 as stated: for every customer and every n, readJsonlLastN returns the
\* records in the order in which the ingestion calls were made, also when the
\* appends of overlapping requests were pending together.
C3_CallOrder ==
    \A k \in Keys, n \in 1..MaxCalls : inCallOrder(readJsonlLastN(byUser[k], n))

\* C3 amended: readJsonlLastN returns the last n records of the log in the
\* order in which their appends completed; a record stands before a record of
\* an earlier call only if its append was issued while an earlier append to
\* the same log was still pending.
C3_CompletionOrder ==
    \A k \in Keys :
        /\ \A i, j \in 1..Len(allRows(k)) :
              i < j /\ allRows(k)[i].no > allRows(k)[j].no => allRows(k)[i].raced
        /\ \A n \in 0..(MaxCalls + 1) : readJsonlLastN(byUser[k], n) = lastN(allRows(k), n)

\* C3 witness: a log that holds a record of a later call before a record of an
\* earlier call, so that reading its last line drops the later call's record
C3_Witness ==
    \E k \in Keys :
        /\ Len(allRows(k)) >= 2
        /\ allRows(k)[1].no > allRows(k)[2].no
        /\ allRows(k)[1].raced
        /\ readJsonlLastN(byUser[k], 1) = <<allRows(k)[2]>>

\* positions of the lines of key k's log that the summary window holds
windowLines(k) == (Max(0, Len(byUser[k]) - SummaryWindow) + 1)..Len(byUser[k])

\* C4: unread_count is the number of incoming records among the last
\* SummaryWindow records when no watermark is stored, and with a stored
\* watermark W the number of those whose received_at is strictly after W.
C4_UnreadCount ==
    \A k \in Keys :
        byUser[k] # <<>> =>
            summaryOf(k)[1].unread_count =
                Cardinality({i \in windowLines(k) :
                    /\ parseLine(byUser[k][i]).direction = "incoming"
                    /\ \/ stateFiles[k] = None
                       \/ parseLine(byUser[k][i]).received_at
                            > stateFiles[k][1].last_seen_incoming_at})

\* C4 witness: a log longer than the window, a stored watermark, an incoming
\* record of the window at the watermark and one after it
C4_Witness ==
    \E k \in Keys :
        /\ Len(byUser[k]) > SummaryWindow
        /\ stateFiles[k] # None
        /\ summaryOf(k)[1].unread_count = 1
        /\ \E i \in windowLines(k) :
              /\ parseLine(byUser[k][i]).direction = "incoming"
              /\ parseLine(byUser[k][i]).received_at = stateFiles[k][1].last_seen_incoming_at

\* C5: POST /webhook, POST /send, GET /customers and GET /ui leave every
\* state file unchanged, and a step that changes the state file of customer
\* c is a chat view of c.
C5_OnlyViewWrites ==
    [][/\ (\/ \E payload \in Payloads, sigGood \in BOOLEAN : Webhook(payload, sigGood)
           \/ \E to \in SendTos, text \in SendTexts, file \in BOOLEAN,
                 provider \in ProviderOutcomes, copyOk \in BOOLEAN :
                 Send(to, text, file, provider, copyOk)
           \/ \E route \in {"customers", "ui"} : ListCustomers(route))
          => stateFiles' = stateFiles
       /\ \A k \in Keys :
             stateFiles'[k] # stateFiles[k] =>
                \E w \in RawIds, q \in HandlerLimits : safeFileName(w) = k /\ ChatView(w, q)]_vars

\* C5 witness: a customer whose log holds an incoming and an outgoing record
\* and who has no state file, while another customer has one
C5_Witness ==
    \E k, other \in Keys :
        /\ k # other
        /\ stateFiles[k] = None
        /\ \E i, j \in 1..Len(allRows(k)) :
              allRows(k)[i].direction = "incoming" /\ allRows(k)[j].direction = "outgoing"
        /\ stateFiles[other] # None

\* positions of the incoming records of rows that carry a received_at
incomingAt(rows) ==
    {i \in 1..Len(rows) : rows[i].direction = "incoming" /\ rows[i].received_at # NullTime}

\* the greatest element of a non-empty set of integers
maxOf(S) == CHOOSE x \in S : \A y \in S : y <= x

\* C6 as stated: the chat view and GET /customers/:wa_id/messages, with any
\* limit, advance the watermark to the timestamp of the latest incoming record
\* of the customer whenever it is strictly greater than the stored one.
C6_EveryReadAdvances ==
    \A w \in RawIds, q \in HandlerLimits :
        LET k == safeFileName(w)
            inc == incomingAt(allRows(k))
            latest == maxOf({allRows(k)[i].received_at : i \in inc})
        IN  inc # {} /\ latest > watermarkMs(k) =>
              /\ storedMs(viewedState(byUser[k], stateFiles[statePath(k)], chatLimit(q))) = latest
              /\ storedMs(messagesState(byUser[k], stateFiles[statePath(k)], apiLimit(q))) = latest

\* C6 amended: the chat view advances the watermark to the received_at of the
\* last incoming record of the lines it read (the last `limit` lines) whenever
\* that is strictly greater than the stored watermark, and otherwise leaves
\* the state file as it is; GET /customers/:wa_id/messages never changes it.
C6_ViewAdvances ==
    \A w \in RawIds, q \in HandlerLimits :
        LET k == safeFileName(w)
            rows == readJsonlLastN(byUser[k], chatLimit(q))
            inc == incomingAt(rows)
            after == viewedState(byUser[k], stateFiles[statePath(k)], chatLimit(q))
        IN  /\ IF inc # {} /\ rows[maxOf(inc)].received_at > watermarkMs(k)
               THEN storedMs(after) = rows[maxOf(inc)].received_at
               ELSE after = stateFiles[k]
            /\ messagesState(byUser[k], stateFiles[statePath(k)], apiLimit(q)) = stateFiles[k]

\* C6 witness: a log of two incoming records with different timestamps whose
\* stored watermark is the timestamp of the second
C6_Witness ==
    \E k \in Keys :
        /\ Len(allRows(k)) >= 2
        /\ allRows(k)[1].direction = "incoming"
        /\ allRows(k)[2].direction = "incoming"
        /\ allRows(k)[1].received_at < allRows(k)[2].received_at
        /\ watermarkMs(k) = allRows(k)[2].received_at

scenarioLog(k) ==
    /\ Len(byUser[k]) = 2
    /\ allRows(k)[1].direction = "incoming" /\ allRows(k)[1].tags = <<"logistics">>
    /\ allRows(k)[2].direction = "incoming" /\ allRows(k)[2].tags = <<>>
    /\ allRows(k)[1].received_at < allRows(k)[2].received_at
    /\ stateFiles[k] # None
    /\ watermarkMs(k) = allRows(k)[1].received_at

\* C8: in the scenario summarizeCustomer returns unread_count = 1 and
\* tag_counts = {logistics: 1}; and a chat view, with any limit, changes no
\* field of the customer's summary other than unread_count.
C8_ViewKeepsTagCounts ==
    /\ \A k \in Keys :
          scenarioLog(k) =>
              /\ summaryOf(k)[1].unread_count = 1
              /\ DOMAIN summaryOf(k)[1].tags = {"logistics"}
              /\ summaryOf(k)[1].tags["logistics"] = 1
    /\ \A w \in RawIds, q \in HandlerLimits :
          LET k == safeFileName(w)
              after == summarizeCustomer(byUser[k],
                          viewedState(byUser[k], stateFiles[statePath(k)], chatLimit(q)), k)
          IN  summaryOf(k) # None =>
                /\ after # None
                /\ after[1].tags = summaryOf(k)[1].tags
                /\ [after[1] EXCEPT !.unread_count = 0]
                     = [summaryOf(k)[1] EXCEPT !.unread_count = 0]

\* C8 witness: the scenario has been played
C8_Witness == \E k \in Keys : scenarioLog(k)

\* C9: every step leaves the previous content of every per-customer log and
\* of every per-day log a prefix of its new content.
C9_AppendOnly ==
    [][/\ \A k \in Keys : IsPrefix(byUser[k], byUser'[k])
       /\ \A d \in Days : IsPrefix(byDate[d], byDate'[d])]_vars

\* C9 witness: a per-customer log and a per-day log of two lines each, after a
\* chat view has written a state file
C9_Witness ==
    /\ \E k \in Keys : Len(byUser[k]) >= 2
    /\ \E d \in Days : Len(byDate[d]) >= 2
    /\ \E k \in Keys : stateFiles[k] # None

\* C10: POST /webhook sends the 200 acknowledgment as its first step, for
\* every payload and whether or not the signature is valid, so every append
\* and every media download of a webhook request starts after it.
C10_AckFirst ==
    /\ \A p \in pendingAppends : parseLine(p.line).direction = "incoming" => p.responded
    /\ \A d \in downloads : d.responded
    /\ \A variant \in {"plain", "media"}, valid \in BOOLEAN,
          payload \in Payloads \cup MediaPayloads :
          LET steps == webhookSteps(variant, valid, payload)
          IN  steps[1] = "ack" /\ \A i \in 2..Len(steps) : steps[i] # "ack"

\* C10 witness: the media variant with a download in flight and the appends
\* of another webhook request pending
C10_Witness ==
    /\ env.variant = "media"
    /\ downloads # {}
    /\ \E p \in pendingAppends : parseLine(p.line).direction = "incoming" /\ p.responded

\* the lines of the log an append call writes to
targetLog(p) == IF p.dir = "by-user" THEN byUser[p.key] ELSE byDate[p.day]

\* the line is in the log
inLog(line, content) == \E i \in 1..Len(content) : content[i] = line

\* C11: a failed append leaves both logs as they were and issues no new
\* append; it is only written to the error log. A record whose append failed
\* is neither pending again nor in that log afterwards, and the request that
\* made the call was answered with success (200 for a webhook, "sent" for a
\* send the provider accepted).
C11_FailedAppendOnlyLogged ==
    /\ \A f \in errorLog :
          /\ f \notin pendingAppends
          /\ ~inLog(f.line, targetLog(f))
          /\ f.response = (IF parseLine(f.line).direction = "incoming" THEN "ack" ELSE "sent")
    /\ \A p \in pendingAppends :
          p.response = (IF parseLine(p.line).direction = "incoming" THEN "ack" ELSE "sent")

\* C11 witness: the customer-log append of a webhook and the day-log append
\* of a send have failed, and a later record is in the customer log
C11_Witness ==
    /\ \E f \in errorLog :
          /\ f.dir = "by-user" /\ parseLine(f.line).direction = "incoming"
          /\ \E i \in 1..Len(byUser[f.key]) :
                parseLine(byUser[f.key][i]).no > parseLine(f.line).no
    /\ \E f \in errorLog : f.dir = "by-date" /\ parseLine(f.line).direction = "outgoing"

\* the number of lines of the customer logs that hold the record of call no
inUserLogs(no) ==
    Cardinality({<<k, i>> \in Keys \X (1..(2 * MaxCalls)) :
                    i <= Len(byUser[k]) /\ parseLine(byUser[k][i]).no = no})

\* the number of lines of the day logs that hold the record of call no
inDayLogs(no) ==
    Cardinality({<<d, i>> \in Days \X (1..(2 * MaxCalls)) :
                    i <= Len(byDate[d]) /\ parseLine(byDate[d][i]).no = no})

\* the pending appends to the logs under dir for the record of call no
pendingOf(no, dir) == {p \in pendingAppends : p.dir = dir /\ parseLine(p.line).no = no}

\* the record of call no is, once each, in or on its way to its customer's
\* log and the log of the day of its timestamp
appendedToBoth(no) ==
    /\ inUserLogs(no) + Cardinality(pendingOf(no, "by-user")) = 1
    /\ inDayLogs(no) + Cardinality(pendingOf(no, "by-date")) = 1
    /\ \A k \in Keys : \A i \in 1..Len(byUser[k]) :
          parseLine(byUser[k][i]).no = no => safeFileName(parseLine(byUser[k][i]).wa_id) = k
    /\ \A d \in Days : \A i \in 1..Len(byDate[d]) :
          LET r == parseLine(byDate[d][i])
          IN  r.no = no => todayFileName(orElse(r.received_at, r.sent_at)) = d
    /\ \A p \in pendingOf(no, "by-user") : p.key = safeFileName(parseLine(p.line).wa_id)
    /\ \A p \in pendingOf(no, "by-date") :
          p.day = todayFileName(orElse(parseLine(p.line).received_at, parseLine(p.line).sent_at))

\* C12: every record created by POST /webhook or POST /send is appended to
\* its customer's log and to the current day's log, and when no write fails
\* it is eventually, and from then on, exactly once in each of the two.
C12_AppendedToBothLogs ==
    /\ [](\A no \in 1..calls : appendedToBoth(no))
    /\ <>[](\A no \in 1..calls : inUserLogs(no) = 1 /\ inDayLogs(no) = 1)

\* C12 witness: an incoming and an outgoing record have landed in both logs
C12_Witness ==
    /\ pendingAppends = {}
    /\ \E k \in Keys : \E i, j \in 1..Len(byUser[k]) :
          /\ parseLine(byUser[k][i]).direction = "incoming"
          /\ parseLine(byUser[k][j]).direction = "outgoing"
    /\ \A no \in 1..calls : inUserLogs(no) = 1 /\ inDayLogs(no) = 1
    /\ calls >= 2

\* the positions of the last n lines of a log that parse
goodLines(content, n) ==
    {i \in 1..Len(content) : i > Len(content) - n /\ parses(content[i])}

\* C13: readJsonlLastN skips every malformed line and returns the well-formed
\* lines among the last n lines, each once and in file order; for a log that
\* does not exist it returns the empty sequence.
C13_SkipsMalformed ==
    \A k \in Keys, n \in (0 - 1)..(MaxCalls + 1) :
        LET rows == readJsonlLastN(byUser[k], n)
            good == goodLines(byUser[k], n)
        IN  /\ Len(rows) = Cardinality(good)
            /\ \A i \in good :
                  rows[Cardinality({j \in good : j <= i})] = parseLine(byUser[k][i])
            /\ byUser[k] = <<>> => rows = <<>>

\* C13 witness: a log whose torn line stands between two well-formed lines,
\* and a customer without a log
C13_Witness ==
    /\ \E k \in Keys :
          /\ Len(byUser[k]) = 3
          /\ parses(byUser[k][1]) /\ ~parses(byUser[k][2]) /\ parses(byUser[k][3])
          /\ readJsonlLastN(byUser[k], 3) = <<parseLine(byUser[k][1]), parseLine(byUser[k][3])>>
    /\ \E k \in Keys : byUser[k] = <<>>

\* C14: a customer whose log is missing or holds no line that parses has no
\* summary, is in neither customer list, and has an empty message list; the
\* customer list, the message list and the chat view all answer 200.
C14_NoRecordsNoSummary ==
    \A w \in RawIds, q \in HandlerLimits :
        LET k == safeFileName(w)
        IN  parsedRows(byUser[k]) = <<>> =>
              /\ summaryOf(k) = None
              /\ customersResponse.status = 200
              /\ \A c \in customersResponse.customers : c.wa_id # k
              /\ messagesResponse(byUser[k], apiLimit(q))
                   = [status |-> 200, count |-> 0, messages |-> <<>>]
              /\ chatResponse(byUser[k], chatLimit(q)) = [status |-> 200, messages |-> <<>>]
              /\ viewedState(byUser[k], stateFiles[statePath(k)], chatLimit(q))
                   = stateFiles[statePath(k)]

\* C14 witness: one customer's log holds a torn line only while another
\* customer is listed with a summary
C14_Witness ==
    \E k \in Keys :
        /\ byUser[k] # <<>>
        /\ parsedRows(byUser[k]) = <<>>
        /\ k \in customerFiles
        /\ customersResponse.customers # {}

\* the timestamp of a record: received_at || sent_at
occurredAt(r) == orElse(r.received_at, r.sent_at)

\* C15: in every summary the last record is the chronologically latest of
\* the window: its timestamp is greater than or equal to that of every record
\* of the window, the rows being in non-decreasing order of timestamp.
C15_LastRecordLatest ==
    \A k \in Keys :
        LET rows == readJsonlLastN(byUser[k], SummaryWindow)
        IN  summaryOf(k) # None =>
              /\ \A i \in 1..Len(rows) : occurredAt(rows[i]) <= summaryOf(k)[1].last_time
              /\ \A i, j \in 1..Len(rows) : i < j => occurredAt(rows[i]) <= occurredAt(rows[j])

\* the positions of the rows that carry a name
namedRows(rows) ==
    {i \in 1..Len(rows) : rows[i].profile_name # NullStr /\ rows[i].profile_name # <<>>}

\* C16: when a record of the window carries a non-empty profile_name, the
\* summary's profile_name is that of the latest such record, also when the
\* last record of the window is an outgoing one.
C16_NameOfLatestNamedRecord ==
    \A k \in Keys :
        LET rows == readJsonlLastN(byUser[k], SummaryWindow)
        IN  summaryOf(k) # None /\ namedRows(rows) # {} =>
              summaryOf(k)[1].profile_name = rows[maxOf(namedRows(rows))].profile_name

\* C17: last_incoming_at of a summary is the received_at of the last incoming
\* record of the window, whatever the direction of the last record, and it
\* is null exactly when the window holds no incoming record.
C17_LastIncomingAt ==
    \A k \in Keys :
        LET rows == readJsonlLastN(byUser[k], SummaryWindow)
            inc == {i \in 1..Len(rows) : rows[i].direction = "incoming"}
        IN  summaryOf(k) # None =>
              /\ inc # {} => summaryOf(k)[1].last_incoming_at = rows[maxOf(inc)].received_at
              /\ (summaryOf(k)[1].last_incoming_at = NullTime) <=> (inc = {})

\* C17 witness: a window whose last record is outgoing and which holds an
\* incoming record
C17_Witness ==
    \E k \in Keys :
        /\ summaryOf(k) # None
        /\ summaryOf(k)[1].last_direction = "outgoing"
        /\ summaryOf(k)[1].last_incoming_at # NullTime
        /\ summaryOf(k)[1].last_incoming_at < summaryOf(k)[1].last_time

\* the tags getTags can give
TagNames == {"logistics", "after_sales", "pre_sales"}

\* the number of rows whose tags contain t
rowsTagged(rows, t) ==
    Cardinality({i \in 1..Len(rows) : \E j \in 1..Len(rows[i].tags) : rows[i].tags[j] = t})

\* C18: the tags of a summary are the histogram of the window: for every tag
\* t with a record in the window, tags[t] is the number of records of the
\* window whose tags contain t, and a tag of no record has no entry.
C18_TagHistogram ==
    \A k \in Keys :
        LET rows == readJsonlLastN(byUser[k], SummaryWindow)
            tags == summaryOf(k)[1].tags
        IN  summaryOf(k) # None =>
              /\ DOMAIN tags = {t \in TagNames : rowsTagged(rows, t) > 0}
              /\ \A t \in DOMAIN tags : tags[t] = rowsTagged(rows, t)

\* C18 witness: a window of two records that share two tags, after an older
\* record with a third tag
C18_Witness ==
    \E k \in Keys :
        /\ Len(byUser[k]) > SummaryWindow
        /\ summaryOf(k) # None
        /\ DOMAIN summaryOf(k)[1].tags = {"after_sales", "pre_sales"}
        /\ summaryOf(k)[1].tags["after_sales"] = 2
        /\ parses(byUser[k][1])
        /\ parseLine(byUser[k][1]).tags = <<"logistics">>

\* C19: a summary depends on the last SummaryWindow lines of the customer's
\* log and on the watermark only: every log with the same last SummaryWindow
\* lines gives the same summary, so older records contribute nothing.
C19_WindowOnly ==
    \A k \in Keys, other \in OldLogs :
        lastN(other, SummaryWindow) = lastN(byUser[k], SummaryWindow) =>
            summarizeCustomer(other, stateFiles[statePath(k)], k) = summaryOf(k)

\* C19 witness: a log whose oldest record is a tagged incoming one and whose
\* window holds outgoing records only
C19_Witness ==
    \E k \in Keys :
        /\ Len(byUser[k]) > SummaryWindow
        /\ parses(byUser[k][1])
        /\ parseLine(byUser[k][1]).direction = "incoming"
        /\ parseLine(byUser[k][1]).tags # <<>>
        /\ summaryOf(k) # None
        /\ summaryOf(k)[1].last_incoming_at = NullTime
        /\ summaryOf(k)[1].unread_count = 0
        /\ DOMAIN summaryOf(k)[1].tags = {}

C21_SortedByLastTime ==
    \A files \in readdirOrders :
        LET list == customersList(files)
        IN  /\ Len(list) = Cardinality(summaries)
            /\ {list[i] : i \in 1..Len(list)} = summaries
            /\ \A i \in 1..(Len(list) - 1) :
                  isoToMs(list[i].last_time) >= isoToMs(list[i + 1].last_time)
            /\ \A i, j \in 1..Len(list) :
                  (list[i].last_time = NullTime /\ list[j].last_time # NullTime) => j < i

\* three customers are listed: the directory lists an undated one first and
\* the oldest before the newest
C21_Witness ==
    \E files \in readdirOrders :
        /\ Len(files) = 3
        /\ summaryOf(files[1])[1].last_time = NullTime
        /\ summaryOf(files[2])[1].last_time = 1
        /\ summaryOf(files[3])[1].last_time = 2
        /\ customersList(files) = <<summaryOf(files[3])[1], summaryOf(files[2])[1], summaryOf(files[1])[1]>>

\* the customers GET /ui shows for a query, as a set
shown(files, query) == LET list == uiCustomers(files, query) IN {list[i] : i \in 1..Len(list)}

\* the query without filters
NoFilters == [q |-> NullStr, unread |-> NullStr, recent24 |-> NullStr, tag |-> ""]

\* the queries that give one of the filters of the query alone
singleFilters(query) ==
    {[NoFilters EXCEPT !.q = query.q] : x \in {1} \cap {IF toLowerCase(trim(orEmpty(query.q))) # <<>> THEN 1 ELSE 0}}
    \cup {[NoFilters EXCEPT !.unread = query.unread] : x \in {1} \cap {IF query.unread = <<"1">> THEN 1 ELSE 0}}
    \cup {[NoFilters EXCEPT !.recent24 = query.recent24] : x \in {1} \cap {IF query.recent24 = <<"1">> THEN 1 ELSE 0}}
    \cup {[NoFilters EXCEPT !.tag = query.tag] : x \in {1} \cap {IF query.tag # "" THEN 1 ELSE 0}}

\* C22: the filters of the customer list are independent and conjunctive:
\* for every query the customers shown are those shown by each of its given
\* filters applied alone, and a query that gives no filter shows every
\* customer that has a summary
C22_FiltersConjunctive ==
    \A files \in readdirOrders :
        LET shownFor == [query \in UiQueries |-> shown(files, query)]
        IN  /\ shownFor[NoFilters] = summaries
            /\ \A query \in UiQueries :
                  shownFor[query] =
                      {c \in summaries : \A single \in singleFilters(query) : c \in shownFor[single]}

\* three customers are listed and a query with all four filters shows one of
\* them, while each of its filters alone shows two or more
C22_Witness ==
    \E files \in readdirOrders, query \in UiQueries :
        /\ Cardinality(summaries) = 3
        /\ Cardinality(singleFilters(query)) = 4
        /\ Cardinality(shown(files, query)) = 1
        /\ \A single \in singleFilters(query) : Cardinality(shown(files, single)) >= 2

\* the query that gives the filter unread alone
UnreadOnly == [NoFilters EXCEPT !.unread = <<"1">>]

\* the query that gives the filter recent24 alone
Recent24 == [NoFilters EXCEPT !.recent24 = <<"1">>]

\* customer A has two unread messages and a last record one tick old,
\* customer B has no unread message and a last record two ticks old
scenarioAB(a, b) ==
    /\ summaries = {a, b}
    /\ a.unread_count = 2 /\ now - a.last_time = 1
    /\ b.unread_count = 0 /\ b.last_time # NullTime /\ now - b.last_time = 2

\* C23: the filter unread keeps exactly the summaries whose unread_count is
\* positive, the filter recent24 keeps exactly the summaries whose last
\* record has a time at most RecentHours before now; with a customer A (2
\* unread, last record 1 tick ago) and a customer B (0 unread, last record
\* 2 ticks ago) each of the two filters shows A only
C23_UnreadAndRecent ==
    \A files \in readdirOrders :
        /\ shown(files, UnreadOnly) = {c \in summaries : c.unread_count > 0}
        /\ shown(files, Recent24) =
              {c \in summaries : c.last_time # NullTime /\ now - c.last_time <= RecentHours}
        /\ \A a, b \in summaries :
              scenarioAB(a, b) => shown(files, UnreadOnly) = {a} /\ shown(files, Recent24) = {a}

\* the scenario of customers A and B, each filter showing A only
C23_Witness ==
    \E files \in readdirOrders, a, b \in summaries :
        /\ scenarioAB(a, b)
        /\ uiCustomers(files, UnreadOnly) = <<a>>
        /\ uiCustomers(files, Recent24) = <<a>>
        /\ uiCustomers(files, NoFilters) = <<a, b>>

\* the incoming rows received strictly after the time ms
receivedAfter(rows, ms) ==
    LET after(r) == r.direction = "incoming" /\ r.received_at # NullTime /\ r.received_at > ms
    IN  SelectSeq(rows, after)

\* C24: a chat view with the filter unread shows exactly the incoming
\* records of its window received strictly after the watermark stored before
\* the view, all of them with the unread dot, and the view without the
\* filter puts the dot on exactly those records; the watermark the same view
\* writes does not enter
C24_UnreadOnlyUsesOldWatermark ==
    \A w \in RawIds, q \in HandlerLimits :
        LET k == safeFileName(w)
            n == chatLimit(q)
            before == storedMs(stateFiles[statePath(k)])
            unread == receivedAfter(readJsonlLastN(byUser[k], n), before)
            only == chatBubbles(byUser[k], stateFiles[statePath(k)], n, TRUE)
            all == chatBubbles(byUser[k], stateFiles[statePath(k)], n, FALSE)
            dotted(b) == b.unread
        IN  /\ [i \in 1..Len(only) |-> only[i].row] = unread
            /\ \A i \in 1..Len(only) : only[i].unread
            /\ [i \in 1..Len(all) |-> all[i].row] = readJsonlLastN(byUser[k], n)
            /\ LET marked == SelectSeq(all, dotted)
               IN  [i \in 1..Len(marked) |-> marked[i].row] = unread

\* a watermark is stored, a chat view with the filter unread shows some but
\* not all rows of its window, and the same view advances the watermark past
\* every row it shows
C24_Witness ==
    \E w \in RawIds, q \in HandlerLimits :
        LET k == safeFileName(w)
            n == chatLimit(q)
            only == chatBubbles(byUser[k], stateFiles[statePath(k)], n, TRUE)
        IN  /\ storedMs(stateFiles[statePath(k)]) > 0
            /\ Len(only) >= 1
            /\ Len(only) < Len(readJsonlLastN(byUser[k], n))
            /\ viewWrites(byUser[k], stateFiles[statePath(k)], n)
            /\ receivedAfter(readJsonlLastN(byUser[k], n),
                             storedMs(viewedState(byUser[k], stateFiles[statePath(k)], n))) = <<>>

\* the query value is written with digits only and is greater than zero
isPositiveInteger(q) ==
    /\ q # NullStr /\ q # <<>>
    /\ \A i \in 1..Len(q) : q[i] \in Digits
    /\ leadingDigits(q, 0) > 0

\* C25: a limit that is not valid is never rejected and is clamped: for
\* every value of the query parameter limit (absent, not a number, zero,
\* negative, above the maximum) the number of lines read is an integer from
\* 1 to the maximum of the endpoint, and it is the default when the value is
\* not a positive integer
C25_LimitClamped ==
    \A w \in RawIds, q \in LimitInputs :
        /\ messagesResponse(byUser[safeFileName(w)], apiLimit(q)).status = 200
        /\ chatResponse(byUser[safeFileName(w)], chatLimit(q)).status = 200
        /\ apiLimit(q) \in 1..ApiMaxLimit
        /\ chatLimit(q) \in 1..ChatMaxLimit
        /\ ~isPositiveInteger(q) => apiLimit(q) = ApiDefaultLimit /\ chatLimit(q) = ChatDefaultLimit

\* a customer has records in the log and the message list asked with
\* limit=-1 answers with none of them
C25_NegativeLimitReadsNothing ==
    \E w \in RawIds :
        /\ readJsonlLastN(byUser[safeFileName(w)], 1) # <<>>
        /\ apiLimit(<<"-", "1">>) = 0 - 1
        /\ messagesResponse(byUser[safeFileName(w)], apiLimit(<<"-", "1">>)).count = 0
        /\ chatBubbles(byUser[safeFileName(w)], stateFiles[statePath(safeFileName(w))],
                       chatLimit(<<"-", "1">>), FALSE) = <<>>

\* the keywords of a tag
keywordsOf(tag) ==
    CASE tag = "logistics" -> LogisticsKeywords
      [] tag = "after_sales" -> AfterSalesKeywords
      [] tag = "pre_sales" -> PreSalesKeywords

\* tags holds, once each, exactly the tags one of whose keywords occurs in
\* the lower-cased text
exactTags(text, tags) ==
    /\ \A i, j \in 1..Len(tags) : tags[i] = tags[j] => i = j
    /\ {tags[i] : i \in 1..Len(tags)} =
          {tag \in {"logistics", "after_sales", "pre_sales"} :
              \E kw \in keywordsOf(tag) : Includes(toLowerCase(orEmpty(text)), kw)}

\* C26: getTags returns, without duplicates, exactly the tags one of whose
\* keywords occurs in the lower-cased text, for every text tried and for the
\* text of every record in a customer log: logistics for the tracking
\* question, after_sales for the broken item, pre_sales for the price
\* question, nothing for "hello" and for an absent text
C26_GetTagsExact ==
    /\ \A text \in TagTexts : exactTags(text, getTags(text))
    /\ getTags(TxtWhere) = <<"logistics">>
    /\ getTags(TxtBroken) = <<"after_sales">>
    /\ getTags(TxtPrice) = <<"pre_sales">>
    /\ getTags(TxtHello) = <<>>
    /\ getTags(NullStr) = <<>>
    /\ getTags(TxtRefund) = <<"after_sales", "pre_sales">>
    /\ \A k \in Keys : \A i \in 1..Len(allRows(k)) :
          /\ exactTags(allRows(k)[i].text, allRows(k)[i].tags)
          /\ allRows(k)[i].tags = getTags(allRows(k)[i].text)

\* a customer log holds a record tagged logistics, a record with two tags
\* and a record without tags
C26_Witness ==
    \E k \in Keys : \E i, j, l \in 1..Len(allRows(k)) :
        /\ allRows(k)[i].text = TxtTrack /\ allRows(k)[i].tags = <<"logistics">>
        /\ allRows(k)[j].text = TxtRefund /\ allRows(k)[j].tags = <<"after_sales", "pre_sales">>
        /\ allRows(k)[l].text = TxtHi /\ allRows(k)[l].tags = <<>>

\* the request passes the validation of POST /send
validSend(to, text, file) ==
    /\ trim(to) # <<>>
    /\ trim(text) # <<>> \/ file
    /\ env.waToken /\ env.phoneNumberId

\* the appendJsonl calls the step issues
issued == pendingAppends' \ pendingAppends

\* the step appends nothing to any log and issues no append
appendsNothing == pendingAppends' = pendingAppends /\ byUser' = byUser /\ byDate' = byDate

\* the step issues one append of an outgoing record to the log of the
\* recipient, and no append to another customer log
appendsOneOutgoing(to) ==
    /\ Cardinality({p \in issued : p.dir = "by-user"}) = 1
    /\ \A p \in issued :
          p.dir = "by-user" =>
             /\ p.key = safeFileName(trim(to))
             /\ parses(p.line)
             /\ parseLine(p.line).direction = "outgoing"

\* C27: an outgoing record is appended only after the provider accepted the
\* message: a POST /send that fails validation, or whose provider call
\* answers with a status that is not OK or throws, appends no record to any
\* log; a POST /send the provider accepted appends exactly one outgoing
\* record to the log of the recipient
C27_AppendedIffAccepted ==
    [][\A to \in SendTos, text \in SendTexts, file \in BOOLEAN,
          provider \in ProviderOutcomes, copyOk \in BOOLEAN :
          Send(to, text, file, provider, copyOk) =>
             IF validSend(to, text, file) /\ provider = "ok"
             THEN appendsOneOutgoing(to)
             ELSE appendsNothing]_vars

\* the half of C27 about sends that fail: no record without acceptance, and
\* never more than one record for one send
C27_NoRecordUnlessAccepted ==
    [][\A to \in SendTos, text \in SendTexts, file \in BOOLEAN,
          provider \in ProviderOutcomes, copyOk \in BOOLEAN :
          Send(to, text, file, provider, copyOk) =>
             IF validSend(to, text, file) /\ provider = "ok" /\ (file => copyOk)
             THEN appendsOneOutgoing(to)
             ELSE appendsNothing]_vars

\* the provider accepted a message with a file, the copy of the file failed,
\* and the log of the recipient holds no record and none is on its way
C27_AcceptedButNotLogged ==
    \E e \in errorLog :
        /\ e = [error |-> "outgoing log error", to |-> IdB]
        /\ byUser[safeFileName(IdB)] = <<>>
        /\ pendingAppends = {}
        /\ calls = 0

\* the delivery is one the webhook accepts: a valid signature, the field
\* messages, at least one message
acceptedDelivery(payload, sigGood) ==
    /\ isValidSignature(env.appSecret, sigGood)
    /\ payload.field = "messages"
    /\ payload.messages # <<>>

\* the rows of the summary window of customer k that carry the message id m
copiesOf(k, m) ==
    LET rows == readJsonlLastN(byUser[k], SummaryWindow)
    IN  {i \in 1..Len(rows) : rows[i].direction = "incoming" /\ rows[i].message_id = m}

\* C28: deliveries are not deduplicated: every accepted delivery of a message
\* appends one record for it, also when a record with the same message_id
\* is in the customer log already, and in the summary every copy counts: with
\* c copies of a message in the window of a customer without a watermark,
\* unread_count and the count of each tag of the message are at least c
C28_NoDeduplication ==
    /\ [][\A payload \in Payloads, sigGood \in BOOLEAN :
            (Webhook(payload, sigGood) /\ acceptedDelivery(payload, sigGood)) =>
               \E p \in pendingAppends' \ pendingAppends :
                  /\ p.dir = "by-user"
                  /\ p.key = safeFileName(customerOf(payload.contact, payload.messages[1]))
                  /\ parseLine(p.line).message_id = payload.messages[1].id]_vars
    /\ [](\A k \in Keys : \A i \in 1..Len(readJsonlLastN(byUser[k], SummaryWindow)) :
            LET row == readJsonlLastN(byUser[k], SummaryWindow)[i]
                c == Cardinality(copiesOf(k, row.message_id))
            IN  (row.direction = "incoming" /\ stateFiles[statePath(k)] = None) =>
                   /\ summaryOf(k)[1].unread_count >= c
                   /\ \A j \in 1..Len(row.tags) : summaryOf(k)[1].tags[row.tags[j]] >= c)

\* one message was delivered twice: the log of the customer holds two
\* records with its message_id, and the summary counts 2 unread and 2
\* logistics
C28_Witness ==
    \E k \in Keys :
        /\ Len(byUser[k]) = 2
        /\ Cardinality(copiesOf(k, messageId(IdA, TxtTrack))) = 2
        /\ summaryOf(k)[1].unread_count = 2
        /\ summaryOf(k)[1].tags["logistics"] = 2

\* C29: a chat view whose watermark write fails, or that the process does
\* not survive, leaves the stored watermark at its previous value; a chat
\* view whose write succeeds sets the watermark to the latest incoming
\* timestamp of the customer, and unread_count is 0 right after it
C29_FailedWriteKeepsWatermark ==
    /\ [][\A w \in RawIds, q \in HandlerLimits, failure \in WriteFailures :
            ChatViewFails(w, q, failure) =>
               storedMs(stateFiles'[statePath(safeFileName(w))])
                  = storedMs(stateFiles[statePath(safeFileName(w))])]_vars
    /\ [][\A w \in RawIds, q \in HandlerLimits :
            LET k == safeFileName(w)
            IN  (ChatView(w, q) /\ viewWrites(byUser[k], stateFiles[statePath(k)], chatLimit(q))) =>
                   /\ \A i \in 1..Len(allRows(k)) :
                         allRows(k)[i].direction = "incoming" =>
                            isoToMs(allRows(k)[i].received_at) <= storedMs(stateFiles'[statePath(k)])
                   /\ summarizeCustomer(byUser'[k], stateFiles'[statePath(k)], k)[1].unread_count = 0]_vars

\* the part of C29 the code keeps: a write that fails when the file is
\* opened, and a process that stops before the write, leave the state file
\* as it was
C29_UntouchedUnlessTruncated ==
    [][\A w \in RawIds, q \in HandlerLimits, failure \in WriteFailures \ {"write_fails"} :
          ChatViewFails(w, q, failure) => stateFiles' = stateFiles]_vars

\* a customer whose two messages had been read: the write of a later view
\* failed after the state file was truncated, the watermark is gone and the
\* summary counts both messages as unread again
C29_WatermarkLost ==
    \E k \in Keys :
        /\ stateFiles[statePath(k)] = TornState
        /\ [error |-> "writeState error", key |-> statePath(k)] \in errorLog
        /\ storedMs(stateFiles[statePath(k)]) = 0
        /\ Len(allRows(k)) = 3
        /\ summaryOf(k)[1].unread_count = 2

\* the number of malformed lines among the last n lines of a log
malformedInTail(content, n) ==
    Cardinality({i \in 1..Len(content) : i > Len(content) - n /\ ~parses(content[i])})

\* C30 as stated: for n >= 1 readJsonlLastN returns the last min(n, P)
\* parseable records of the log, P being the number of parseable records of
\* the whole file
C30_LastMinParseable ==
    \A k \in Keys, n \in 1..(MaxCalls + 1) :
        readJsonlLastN(byUser[k], n)
           = lastN(parsedRows(byUser[k]), Min(n, Len(parsedRows(byUser[k]))))

\* C30: for n >= 1 readJsonlLastN cuts the last n lines first and parses
\* them afterwards: it returns the last records of the log that parse, as
\* many as the last n lines hold, which is min(n, lines) less the malformed
\* lines among them; that is at most min(n, P), and exactly min(n, P) when
\* none of the last n lines is malformed
C30_CutsBeforeParsing ==
    \A k \in Keys, n \in 1..(MaxCalls + 1) :
        LET rows == readJsonlLastN(byUser[k], n)
            parseable == parsedRows(byUser[k])
            bad == malformedInTail(byUser[k], n)
        IN  /\ rows = lastN(parseable, Len(rows))
            /\ Len(rows) = Min(n, Len(byUser[k])) - bad
            /\ Len(rows) <= Min(n, Len(parseable))
            /\ bad = 0 => Len(rows) = Min(n, Len(parseable))

\* a log of two well-formed lines followed by a torn one: the last line
\* alone gives no record, the last two lines give one record
C30_Witness ==
    \E k \in Keys :
        /\ Len(byUser[k]) = 3
        /\ parses(byUser[k][1]) /\ parses(byUser[k][2]) /\ ~parses(byUser[k][3])
        /\ readJsonlLastN(byUser[k], 1) = <<>>
        /\ readJsonlLastN(byUser[k], 2) = <<parseLine(byUser[k][2])>>

\* C31: an incoming record that is appended to the log of a customer is
\* counted in unread_count from then on, the watermark being changed by a
\* later chat view only: right after the append the record is unread for
\* summarizeCustomer and unread_count is positive, also when the append was
\* started before the last view and when the record carries the timestamp
\* the view stored
C31_LateAppendCounted ==
    [][\A p \in pendingAppends :
          (AppendDone(p) /\ p.dir = "by-user" /\ parseLine(p.line).direction = "incoming") =>
             /\ isUnread(parseLine(p.line), storedMs(stateFiles'[statePath(p.key)]))
             /\ summarizeCustomer(byUser'[p.key], stateFiles'[statePath(p.key)], p.key)[1].unread_count >= 1]_vars

\* a watermark is stored, the last line of the log is an incoming record
\* whose append was issued while another append for the customer was
\* pending, no append is pending any more, and unread_count is 0
C31_AppendedAfterViewNotCounted ==
    \E k \in Keys :
        /\ Len(byUser[k]) = 2
        /\ parseLine(byUser[k][2]).direction = "incoming"
        /\ parseLine(byUser[k][2]).raced
        /\ stateFiles[statePath(k)] # None
        /\ summaryOf(k)[1].unread_count = 0
        /\ pendingFor(k) = FALSE

\* unread_count as summarizeCustomer returns it for a log and a state file,
\* 0 when there is no summary
unreadOf(content, file) ==
    IF summarizeCustomer(content, file, <<>>) = None THEN 0
    ELSE summarizeCustomer(content, file, <<>>)[1].unread_count

\* 1 when the line is an unread incoming record for the state file, else 0
unreadLine(line, file) ==
    IF parses(line) /\ isUnread(parseLine(line), storedMs(file)) THEN 1 ELSE 0

\* C32 as stated: a step that is not a chat view, in particular the
\* ingestion of an incoming or outgoing record for any customer, never makes
\* the unread_count of a customer smaller
C32_IngestNeverDecreases ==
    [][stateFiles' = stateFiles =>
          \A k \in Keys :
             unreadOf(byUser'[k], stateFiles'[statePath(k)])
                >= unreadOf(byUser[k], stateFiles[statePath(k)])]_vars

\* C32: a step that leaves the watermarks alone changes the unread_count of
\* a customer only by appending a record to the log of that customer: the
\* count grows by one when the record is an unread incoming one and shrinks
\* by one when the line that leaves the summary window was unread; a log
\* shorter than the window loses nothing
C32_DecreaseOnlyByWindow ==
    [][stateFiles' = stateFiles =>
          \A k \in Keys :
             LET file == stateFiles[statePath(k)]
                 old == unreadOf(byUser[k], file)
                 new == unreadOf(byUser'[k], file)
                 grown == Len(byUser'[k]) = Len(byUser[k]) + 1
                 added == IF grown THEN unreadLine(byUser'[k][Len(byUser'[k])], file) ELSE 0
                 left == IF grown /\ Len(byUser[k]) >= SummaryWindow
                         THEN unreadLine(byUser[k][Len(byUser[k]) - SummaryWindow + 1], file)
                         ELSE 0
             IN  /\ grown \/ byUser'[k] = byUser[k]
                 /\ new = old - left + added]_vars

\* a customer with a full window of two unread messages and a reply about
\* to land: the reply will push one of the two out of the window
C32_Witness ==
    \E k \in Keys, p \in pendingAppends :
        /\ p.dir = "by-user" /\ p.key = k
        /\ parseLine(p.line).direction = "outgoing"
        /\ Len(byUser[k]) = SummaryWindow
        /\ unreadOf(byUser[k], stateFiles[statePath(k)]) = 2
        /\ unreadOf(Append(byUser[k], p.line), stateFiles[statePath(k)]) = 1

\* C33: POST /webhook appends a record only when the signature is valid, or
\* no APP_SECRET is configured, and the first change has the field messages
\* and a message: such a request issues its appends or starts its download,
\* every other request leaves the logs, the pending appends and the
\* downloads as they are, and no request touches a state file
C33_OnlySignedMessages ==
    [][\A payload \in Payloads \cup MediaPayloads, sigGood \in BOOLEAN :
          Webhook(payload, sigGood) =>
             /\ stateFiles' = stateFiles
             /\ byUser' = byUser /\ byDate' = byDate
             /\ IF /\ sigGood \/ ~env.appSecret
                   /\ payload.field = "messages"
                   /\ payload.messages # <<>>
                THEN pendingAppends' # pendingAppends \/ downloads' # downloads
                ELSE pendingAppends' = pendingAppends /\ downloads' = downloads
                     /\ calls' = calls]_vars

\* with APP_SECRET configured a signed delivery has reached a customer log
C33_Witness ==
    /\ env.appSecret
    /\ \E k \in Keys : \E i \in 1..Len(byUser[k]) :
          parseLine(byUser[k][i]).direction = "incoming"

\* the request carries the configured credentials
credentialsMatch(header) ==
    /\ env.uiUser # None /\ env.uiPass # None
    /\ header = authHeader(BasicScheme, env.uiUser[1] \o <<":">> \o env.uiPass[1])

ProtectedHandlers == {"customers", "messages", "ui", "chat", "sendForm", "send", "thumb"}

\* C34: a request that Express routes to a handler of /ui, /customers, /send
\* or /media and that does not carry the configured credentials runs no
\* handler: it changes no watermark and issues no append
C34_ProtectedNeedsCredentials ==
    [][\A r \in Requests, h \in Headers :
          (/\ handlerOf[env.variant][r] \in ProtectedHandlers
           /\ ~credentialsMatch(h)
           /\ Request(r, h))
          => stateFiles' = stateFiles /\ pendingAppends' = pendingAppends]_vars

\* UI_USER is not configured, yet a chat view has moved a watermark
C34_ViewedWithoutAuth ==
    /\ env.uiUser = None
    /\ \E k \in Keys : stateFiles[k] # None

\* the text of a delivered message, or its caption when it has no text
messageBody(msg) ==
    bodyOf(IF msg.type = "text" THEN msg.text_body ELSE NullStr,
           IF msg.type = "image" THEN msg.caption ELSE NullStr)

\* the tags of the lines of a log that are there before and after a step
sameTags(before, after) ==
    /\ Len(after) >= Len(before)
    /\ \A i \in 1..Len(before) :
          parses(before[i]) =>
             parses(after[i]) /\ parseLine(after[i]).tags = parseLine(before[i]).tags

\* C35 as stated: the record of a delivered message carries getTags of the
\* text of the message, or of its caption when it has no text
C35_TagsOfMessageBody ==
    [][/\ \A payload \in Payloads \cup MediaPayloads, sigGood \in BOOLEAN :
             Webhook(payload, sigGood) =>
                \A p \in issued : parseLine(p.line).tags = getTags(messageBody(payload.messages[1]))
       /\ \A d \in downloads, ok \in BOOLEAN :
             DownloadDone(d, ok) =>
                \A p \in issued : parseLine(p.line).tags = getTags(messageBody(d.payload.messages[1]))]_vars

\* C35: every record is issued with getTags of the body it stores, its text
\* or else its caption; the line that reaches a log is the issued one, and
\* no step changes the tags of a line that is in a log or on its way
C35_TagsOfStoredBody ==
    [][/\ \A p \in issued :
             LET r == parseLine(p.line)
             IN  r.tags = getTags(bodyOf(r.text, r.caption))
       /\ \A p \in pendingAppends :
             AppendDone(p) =>
                LET after == IF p.dir = "by-user" THEN byUser'[p.key] ELSE byDate'[p.day]
                IN  after[Len(after)] = p.line
       /\ \A k \in Keys : sameTags(byUser[k], byUser'[k])
       /\ \A d \in Days : sameTags(byDate[d], byDate'[d])]_vars

\* the media variant has logged an image whose tags come from its caption
C35_Witness ==
    /\ env.variant = "media"
    /\ \E k \in Keys : \E i \in 1..Len(byUser[k]) :
          LET r == parseLine(byUser[k][i])
          IN  r.type = "image" /\ r.text = NullStr /\ r.tags = getTags(r.caption)
              /\ r.tags # <<>>

\* request bodies with several entries and changes
webhookBody(entries) == [entry |-> [i \in 1..Len(entries) |-> [changes |-> entries[i]]]]

twoMessages ==
    delivery(<<textMsg(IdA, TxtHi), textMsg(IdB, TxtTrack)>>, Some([wa_id |-> IdB, name |-> NameAnn]))

Bodies ==
    {webhookBody(<<>>),
     webhookBody(<<<<delivery(<<textMsg(IdA, TxtTrack)>>, None)>>>>),
     webhookBody(<<<<twoMessages, delivery(<<textMsg(IdA2, TxtHi)>>, None)>>,
                   <<delivery(<<textMsg(IdA, TxtTrack)>>, None)>>>>),
     webhookBody(<<<<[field |-> "statuses", messages |-> <<textMsg(IdB, TxtHi)>>, contact |-> None],
                     delivery(<<textMsg(IdA2, TxtHi)>>, None)>>>>),
     webhookBody(<<<<delivery(<<imageMsg(IdB, TxtTrack)>>, None),
                     delivery(<<textMsg(IdA2, TxtHi)>>, None)>>>>)}

\* body?.entry?.[0]?.changes?.[0]: its field, value.messages, value.contacts[0]
firstChange(body) ==
    IF Len(body.entry) = 0 \/ Len(body.entry[1].changes) = 0
    THEN [field |-> "undefined", messages |-> <<>>, contact |-> None]
    ELSE body.entry[1].changes[1]

\* the appends of one step are at most one per log, all of the message m
oneRecordOf(m) ==
    /\ Cardinality({p \in issued : p.dir = "by-user"}) <= 1
    /\ Cardinality({p \in issued : p.dir = "by-date"}) <= 1
    /\ \A p \in issued : parseLine(p.line).message_id = m.id
                         /\ parseLine(p.line).direction = "incoming"

\* C36: one POST /webhook appends at most one record to a customer log and
\* at most one to a day log, whatever entries, changes and messages its body
\* carries: the record of the first message of the first change of the first
\* entry, issued by the handler or, for a media message, when its download
\* has finished
C36_OneRecordPerWebhook ==
    [][/\ \A body \in Bodies, sigGood \in BOOLEAN :
             Webhook(firstChange(body), sigGood) =>
                /\ downloads' # downloads => issued = {}
                /\ issued # {} => oneRecordOf(body.entry[1].changes[1].messages[1])
       /\ \A d \in downloads, ok \in BOOLEAN :
             DownloadDone(d, ok) =>
                /\ downloads' = downloads \ {d}
                /\ oneRecordOf(d.payload.messages[1])]_vars

\* the delivery with two messages has been logged: its first message is in
\* the log of its contact, its second message is in no log
C36_Witness ==
    /\ \E i \in 1..Len(byUser[safeFileName(IdB)]) :
          parseLine(byUser[safeFileName(IdB)][i]).message_id = messageId(IdA, TxtHi)
    /\ \A k \in Keys : \A i \in 1..Len(byUser[k]) :
          parseLine(byUser[k][i]).message_id # messageId(IdB, TxtTrack)

\* the log, the watermark and the summary of customer id b are left alone
untouched(b) ==
    LET k == safeFileName(b)
    IN  /\ byUser'[k] = byUser[k]
        /\ stateFiles'[statePath(k)] = stateFiles[statePath(k)]
        /\ summarizeCustomer(byUser'[k], stateFiles'[statePath(k)], k) = summaryOf(k)

\* a record of customer id a reaches its log, or a is viewed
touches(a) ==
    \/ \E p \in pendingAppends :
          AppendDone(p) /\ p.dir = "by-user" /\ parseLine(p.line).wa_id = a
    \/ \E q \in HandlerLimits : ChatView(a, q)

\* C37: for two distinct customer ids a and b, also ids that differ only in
\* characters that safeFileName replaces, the arrival of a record of a in
\* its log and a view of a leave the log, the watermark and the summary of b
\* unchanged
C37_CustomersIsolated ==
    [][\A a, b \in RawIds : (a # b /\ touches(a)) => untouched(b)]_vars

\* one log holds the records of two customer ids
C37_SharedLog ==
    \E k \in Keys : \E i, j \in 1..Len(byUser[k]) :
       parseLine(byUser[k][i]).wa_id # parseLine(byUser[k][j]).wa_id

\* the record of message m without local media, issued for log dir
issuedWithoutMedia(m, dir) ==
    \E p \in issued :
       /\ p.dir = dir
       /\ parseLine(p.line).direction = "incoming"
       /\ parseLine(p.line).message_id = m.id
       /\ parseLine(p.line).media_id = m.media_id
       /\ parseLine(p.line).local_media_file = NullStr

\* C38: in the media variant a failed download still ends with the record
\* of the message issued to both logs, with no local media file, and the
\* record of a media message is issued only in the step in which its
\* download settles, never by the step that starts the download
C38_FailedDownloadStillLogged ==
    [][/\ \A d \in downloads :
             DownloadDone(d, FALSE) =>
                /\ issuedWithoutMedia(d.payload.messages[1], "by-user")
                /\ issuedWithoutMedia(d.payload.messages[1], "by-date")
                /\ Cardinality(issued) = 2
       /\ \A p \in issued :
             (/\ env.variant = "media"
              /\ parseLine(p.line).direction = "incoming"
              /\ parseLine(p.line).media_id # NullStr)
             => \E d \in downloads :
                   /\ downloads' = downloads \ {d}
                   /\ d.payload.messages[1].id = parseLine(p.line).message_id]_vars

\* an image whose download failed is in a customer log and in a day log
C38_Witness ==
    /\ env.variant = "media"
    /\ \E k \in Keys, d \in Days : \E i \in 1..Len(byUser[k]), j \in 1..Len(byDate[d]) :
          /\ byUser[k][i] = byDate[d][j]
          /\ parseLine(byUser[k][i]).media_id # NullStr
          /\ parseLine(byUser[k][i]).direction = "incoming"
          /\ parseLine(byUser[k][i]).local_media_file = NullStr

\* C39: a thumbnail is generated once per image: whatever requests arrive
\* for an image, also requests that overlap, its thumbnail file is written
\* by at most one generation
C39_GeneratedOnce ==
    \A t \in ThumbPaths : thumbs.writes[t] <= 1

\* two generations have written the thumbnail of one image
C39_GeneratedTwice ==
    \E t \in ThumbPaths : thumbs.writes[t] >= 2

====
